---- MODULE Spec2Model ----
(***************************************************************************)
(* A model of The Story Test's Python tooling:                             *)
(*   - storytest/python_validator.py  (source frontend)                    *)
(*   - storytest/validator.py         (binary frontend, StoryTestValidator)*)
(*   - storytest/cli.py               (driver, run_validation)             *)
(* Text that the code inspects character by character (comment text,      *)
(* member names, base-class names) is a sequence of one-character strings. *)
(***************************************************************************)
EXTENDS Integers, Sequences, FiniteSets, TLC

(* ------------------------------ bounds -------------------------------- *)
\* longest function body (statements) of a generated source function
MaxBody == 2
\* longest class body (statements) of a generated source class
MaxMembers == 2
\* longest token stream of a generated source file
MaxTokens == 2
\* most source files handed to one validate_python_path call
MaxFiles == 2

(* ------------------------------- state -------------------------------- *)
\* validate_python_path (python_validator.py)
VARIABLES
    pyFiles,        \* the files the call iterates over, in order
    pyIdx,          \* how many of them the for loop has taken
    pyPc,           \* where validate_python_path is
    pyTodo,         \* the deque of ast.walk
    pyViolations    \* the local list `violations`

\* StoryTestValidator (validator.py)
VARIABLES
    disk,           \* the assemblies, by position
    violations,     \* self.violations of the validator instance
    calls           \* the validate_assembly calls made: unit and returned list

\* run_validation (cli.py)
VARIABLES
    args,           \* kind of args.path, fail_on_violations, output
    cliPc,          \* where run_validation is
    cliIdx,         \* how many assemblies the for loop has taken
    all_violations, \* the local list all_violations
    report,         \* the report dictionary
    emitted,        \* the report as written to the file or printed
    exitCode        \* the argument of sys.exit

\* StoryTestValidator of the standalone script (scripts/story_test.py)
VARIABLES
    scrDisk,        \* the assemblies the script is pointed at, by position
    scrViolations,  \* self.violations of the script's validator instance
    scrCalls,       \* the validate_assembly calls made: unit and returned list
    examined        \* the members the rules of the last call have read

\* _iter_python_files (python_validator.py)
VARIABLES
    itArgs,         \* the working directory and the arguments root, includes, excludes
    fsTree,         \* what lies below the root, in the order glob walks it
    itPc,           \* where the generator is
    itRoot,         \* the local `root` after resolve()
    itInc,          \* the local list `inc`
    itExc,          \* the local set `exc`
    itPat,          \* how many patterns of inc the outer loop has taken
    itCand,         \* how many paths of the current glob the inner loop has taken
    itSeen,         \* the local set `seen`
    itYielded       \* the paths yielded, each taken by the for loop of the caller

pyVars == <<pyFiles, pyIdx, pyPc, pyTodo, pyViolations>>

valVars == <<disk, violations, calls>>

cliVars == <<args, cliPc, cliIdx, all_violations, report, emitted, exitCode>>

scrVars == <<scrDisk, scrViolations, scrCalls, examined>>

itVars == <<itArgs, fsTree, itPc, itRoot, itInc, itExc, itPat, itCand, itSeen, itYielded>>

vars == <<pyVars, valVars, cliVars, scrVars, itVars>>

(* --------------------------- text helpers ----------------------------- *)
UpperLetters == <<"A","B","C","D","E","F","G","H","I","J","K","L","M",
                  "N","O","P","Q","R","S","T","U","V","W","X","Y","Z">>
LowerLetters == <<"a","b","c","d","e","f","g","h","i","j","k","l","m",
                  "n","o","p","q","r","s","t","u","v","w","x","y","z">>

\* str.lower() on one character
LowerChar(c) ==
    IF \E i \in 1..Len(UpperLetters) : UpperLetters[i] = c
    THEN LowerLetters[CHOOSE i \in 1..Len(UpperLetters) : UpperLetters[i] = c]
    ELSE c

\* str.lower()
Lower(s) == [i \in 1..Len(s) |-> LowerChar(s[i])]

\* `p in s` for strings
Contains(s, p) ==
    \E i \in 1..(Len(s) - Len(p) + 1) : SubSeq(s, i, i + Len(p) - 1) = p

\* s.startswith(p)
StartsWith(s, p) == Len(s) >= Len(p) /\ SubSeq(s, 1, Len(p)) = p

\* s.endswith(p)
EndsWith(s, p) == Len(s) >= Len(p) /\ SubSeq(s, Len(s) - Len(p) + 1, Len(s)) = p

\* all sequences over S of length lo..hi
SeqsOf(S, lo, hi) == UNION {[1..n -> S] : n \in lo..hi}

(* ------------------------- violation records -------------------------- *)
\* class StoryViolationType(Enum), in declaration order
StoryViolationType ==
    <<"IncompleteImplementation", "DebuggingCode", "UnusedCode",
      "PrematureCelebration", "Other">>

INCOMPLETE_IMPLEMENTATION == StoryViolationType[1]
DEBUGGING_CODE == StoryViolationType[2]
UNUSED_CODE == StoryViolationType[3]
PREMATURE_CELEBRATION == StoryViolationType[4]
\* StoryViolationType.OTHER (OTHER alone is a reserved word)
OTHER_TYPE == StoryViolationType[5]

\* StoryViolation.__init__
StoryViolation(type_name, member, violation, violation_type, file_path, line_number) ==
    [type_name |-> type_name, member |-> member, violation |-> violation,
     violation_type |-> violation_type, file_path |-> file_path,
     line_number |-> line_number]

\* a violation message: the fixed text and the interpolated part
Msg(text, detail) == [text |-> text, detail |-> detail]

(* ====================================================================== *)
(*                 SOURCE FRONTEND: python_validator.py                    *)
(* ====================================================================== *)

(* ------------- the syntax tree (what ast.parse hands back) ------------ *)
\* an absent expression (Return.value / Raise.exc is None)
NoExpr == [node |-> "None", id |-> "", const |-> "-"]
\* ast.Constant; const is the Python type of its value
ConstantExpr(c) == [node |-> "Constant", id |-> "", const |-> c]
\* ast.Name
NameExpr(id) == [node |-> "Name", id |-> id, const |-> "-"]
\* ast.Call whose func is an ast.Name
CallNameExpr(id) == [node |-> "CallName", id |-> id, const |-> "-"]
\* ast.Call whose func is an ast.Attribute (e.g. errors.NotImplementedError())
CallAttrExpr(id) == [node |-> "CallAttr", id |-> id, const |-> "-"]
\* ast.UnaryOp (e.g. -1)
UnaryOpExpr == [node |-> "UnaryOp", id |-> "", const |-> "-"]

\* every statement carries the same fields; unused ones are empty
Stmt(kind, name, bases, body, value, targets) ==
    [kind |-> kind, lineno |-> 0, name |-> name, bases |-> bases, body |-> body,
     value |-> value, targets |-> targets]

PassStmt == Stmt("Pass", "", <<>>, <<>>, NoExpr, <<>>)
ExprStmt(e) == Stmt("Expr", "", <<>>, <<>>, e, <<>>)
EllipsisStmt == ExprStmt(ConstantExpr("Ellipsis"))
DocStmt == ExprStmt(ConstantExpr("str"))
NumStmt == ExprStmt(ConstantExpr("int"))
ReturnStmt(e) == Stmt("Return", "", <<>>, <<>>, e, <<>>)
RaiseStmt(e) == Stmt("Raise", "", <<>>, <<>>, e, <<>>)
\* Assign: targets is a sequence of [node, id]; id is the name, char by char
AssignStmt(targets) == Stmt("Assign", "", <<>>, <<>>, NoExpr, targets)
\* AnnAssign (RED: int = 1)
AnnAssignStmt == Stmt("AnnAssign", "", <<>>, <<>>, NoExpr, <<>>)
IfStmt(body) == Stmt("If", "", <<>>, body, NoExpr, <<>>)
FunctionDef(name, body) == Stmt("FunctionDef", name, <<>>, body, NoExpr, <<>>)
AsyncFunctionDef(name, body) == Stmt("AsyncFunctionDef", name, <<>>, body, NoExpr, <<>>)
ClassDef(name, bases, body) == Stmt("ClassDef", name, bases, body, NoExpr, <<>>)

NameTarget(id) == [node |-> "Name", id |-> id]
AttributeTarget == [node |-> "Attribute", id |-> <<>>]

\* a base-class expression: ast.Name (id), ast.Attribute (attr) or anything else
NameBase(id) == [node |-> "Name", id |-> id]
AttributeBase(attr) == [node |-> "Attribute", id |-> attr]
OtherBase == [node |-> "Subscript", id |-> <<>>]

\* number of statements in a body, nested ones included
RECURSIVE BodySize(_)
BodySize(body) ==
    IF body = <<>> THEN 0
    ELSE 1 + BodySize(Head(body).body) + BodySize(Tail(body))

\* the parser's line numbers: one statement per line, in source order
RECURSIVE NumberBody(_, _)
NumberBody(body, first) ==
    IF body = <<>> THEN <<>>
    ELSE LET h == Head(body)
         IN  <<[h EXCEPT !.lineno = first, !.body = NumberBody(h.body, first + 1)]>>
             \o NumberBody(Tail(body), first + 1 + BodySize(h.body))

\* ast.iter_child_nodes restricted to statements (expressions hold no defs)
IterChildNodes(node) == node.body

\* is the statement a string-literal expression (a docstring)?
\* isinstance(s, ast.Expr) and isinstance(s.value, ast.Constant) and isinstance(s.value.value, str)
IsStrExpr(s) == s.kind = "Expr" /\ s.value.node = "Constant" /\ s.value.const = "str"

\* isinstance(stmt, ast.Expr) and ... stmt.value.value is Ellipsis
IsEllipsisExpr(s) == s.kind = "Expr" /\ s.value.node = "Constant" /\ s.value.const = "Ellipsis"

(* --------------------------- pure functions --------------------------- *)
_PLACEHOLDER_NAMES ==
    { <<"n","o","n","e">>, <<"d","e","f","a","u","l","t">>, <<"t","o","d","o">>,
      <<"t","e","m","p">>, <<"p","l","a","c","e","h","o","l","d","e","r">>,
      <<"u","n","k","n","o","w","n">> }

\* str.strip(): drop leading and trailing blanks
RECURSIVE Strip(_)
Strip(s) ==
    IF s = <<>> THEN s
    ELSE IF Head(s) = " " THEN Strip(Tail(s))
    ELSE IF s[Len(s)] = " " THEN Strip(SubSeq(s, 1, Len(s) - 1))
    ELSE s

\* the marker test without lower-casing
HasMarker_case_sensitive(string) ==
    Contains(string, <<"t","o","d","o">>) \/ Contains(string, <<"f","i","x","m","e">>)

\* does one comment's text carry a marker?  text = tok.string.lower()
HasMarker(string) ==
    LET text == Lower(string)
    IN  Contains(text, <<"t","o","d","o">>) \/ Contains(text, <<"f","i","x","m","e">>)

\* _has_todo_or_fixme_tokens: (line, text) of every marked COMMENT token that
\* the tokenizer yields; tokenize.TokenError is swallowed, the hits so far kept
RECURSIVE _has_todo_or_fixme_tokens(_)
_has_todo_or_fixme_tokens(tokens) ==
    IF tokens = <<>> THEN <<>>
    ELSE LET tok == Head(tokens)
         IN  (IF tok.type = "COMMENT" /\ HasMarker(tok.string)
              THEN <<[line |-> tok.start[1], text |-> Strip(tok.string)]>>
              ELSE <<>>)
             \o _has_todo_or_fixme_tokens(Tail(tokens))

\* the stub test without the docstring clause
_is_pass_or_ellipsis_only_no_docstring(body) ==
    \A i \in DOMAIN body : body[i].kind = "Pass" \/ IsEllipsisExpr(body[i])

\* _is_pass_or_ellipsis_only
_is_pass_or_ellipsis_only(body) ==
    \A i \in DOMAIN body :
        \/ body[i].kind = "Pass"
        \/ IsEllipsisExpr(body[i])
        \/ IsStrExpr(body[i])

\* the body with every string-literal expression statement filtered out
NonDoc(body) == SelectSeq(body, LAMBDA s : ~IsStrExpr(s))

\* the constant-return test on the unfiltered body
_returns_constant_only_keep_docstring(node) ==
    IF node.kind \notin {"FunctionDef", "AsyncFunctionDef"} THEN <<>>
    ELSE IF Len(node.body) # 1 \/ node.body[1].kind # "Return" THEN <<>>
    ELSE IF node.body[1].value.node = "Constant" THEN <<node.body[1]>>
    ELSE <<>>

\* _returns_constant_only: <<ret>> (the return node) or <<>> (None)
_returns_constant_only(node) ==
    IF node.kind \notin {"FunctionDef", "AsyncFunctionDef"} THEN <<>>
    ELSE LET body == NonDoc(node.body)
         IN  IF Len(body) # 1 \/ body[1].kind # "Return" THEN <<>>
             ELSE IF body[1].value.node = "Constant" THEN <<body[1]>>
             ELSE <<>>

\* the hollow test with the threshold off by one
_detect_enum_hollow_strict(cls) ==
    LET named == {b \in DOMAIN cls.bases : cls.bases[b].node \in {"Name", "Attribute"}}
        isEnum == \E b \in named : Lower(cls.bases[b].id) \in {<<"e","n","u","m">>, <<"i","n","t","e","n","u","m">>}
        names == {p \in UNION {{<<j, t>> : t \in DOMAIN cls.body[j].targets} : j \in DOMAIN cls.body} :
                     cls.body[p[1]].kind = "Assign" /\ cls.body[p[1]].targets[p[2]].node = "Name"}
        meaningful == {p \in names :
                          LET m == cls.body[p[1]].targets[p[2]].id
                          IN  ~(StartsWith(m, <<"_","_">>) /\ EndsWith(m, <<"_","_">>))
                              /\ Lower(m) \notin _PLACEHOLDER_NAMES}
    IN  isEnum /\ Cardinality(meaningful) < 1

\* _detect_enum_hollow
_detect_enum_hollow(cls) ==
    LET base_names == {cls.bases[i].id : i \in {j \in DOMAIN cls.bases :
                                                 cls.bases[j].node \in {"Name", "Attribute"}}}
        normalized == {Lower(n) : n \in {b \in base_names : b # <<>>}}
        assigns    == SelectSeq(cls.body, LAMBDA s : s.kind = "Assign")
        \* members, flattened over the targets of each Assign
        targetsOf(s) == SelectSeq(s.targets, LAMBDA t : t.node = "Name")
        nondunder(s) == SelectSeq(targetsOf(s),
                          LAMBDA t : ~(StartsWith(t.id, <<"_","_">>) /\ EndsWith(t.id, <<"_","_">>)))
        meaningful(s) == SelectSeq(nondunder(s), LAMBDA t : Lower(t.id) \notin _PLACEHOLDER_NAMES)
        RECURSIVE total(_)
        total(ss) == IF ss = <<>> THEN 0 ELSE Len(meaningful(Head(ss))) + total(Tail(ss))
    IN  IF ~(<<"e","n","u","m">> \in normalized \/ <<"i","n","t","e","n","u","m">> \in normalized)
        THEN FALSE
        ELSE total(assigns) <= 1

(* ------------------------- the analysed inputs ------------------------ *)
\* a token as tokenize yields it; start = (row, col), rows count from 1
Token(type, string, row) == [type |-> type, string |-> string, start |-> <<row, 0>>]

CommentTexts ==
    { <<"#"," ","T","O","D","O">>, <<"#","F","i","x","M","e"," ">>,
      <<"#","t","o","d","o">>, <<"#"," ","n","o","t","e">> }

\* what one source line contributes to the token stream
LineTokens == {[type |-> "NAME", string |-> <<"x">>]}
              \cup {[type |-> "COMMENT", string |-> c] : c \in CommentTexts}

\* token streams: one token per line, line i holding the i-th token
TokenStreams(maxLen) ==
    {[i \in 1..Len(ls) |-> Token(ls[i].type, ls[i].string, i)] : ls \in SeqsOf(LineTokens, 0, maxLen)}

\* a source file: what tokenize and ast.parse make of its text
\*   tokens   the tokens generate_tokens yields before it stops
\*   tokErr   how generate_tokens ends: "ok", "TokenError" (EOF inside a
\*            bracket or string) or "IndentationError" (inconsistent dedent)
\*   parseErr ast.parse raises SyntaxError
\*   tree     the module body when ast.parse succeeds
SourceFile(tokens, tokErr, parseErr, tree) ==
    [path |-> 0, tokens |-> tokens, tokErr |-> tokErr, parseErr |-> parseErr,
     tree |-> IF parseErr THEN <<>> ELSE NumberBody(tree, 1)]

\* tokenizer / parser outcomes that occur together: text the tokenizer
\* rejects is never parsed successfully
LexOutcomes ==
    { <<"ok", FALSE>>, <<"ok", TRUE>>, <<"TokenError", TRUE>>, <<"IndentationError", TRUE>> }

N_RED == <<"R","E","D">>
N_GREEN == <<"G","R","E","E","N">>
N_Unknown == <<"U","n","k","n","o","w","n">>
N_order == <<"_","_","o","r","d","e","r","_","_">>
N_Enum == <<"E","n","u","m">>
N_IntEnum == <<"I","n","t","E","n","u","m">>
N_Base == <<"B","a","s","e">>

\* statements a generated function body is made of
FnStmts ==
    { PassStmt, EllipsisStmt, DocStmt, NumStmt,
      ReturnStmt(ConstantExpr("int")), ReturnStmt(NameExpr("x")), ReturnStmt(NoExpr),
      ReturnStmt(UnaryOpExpr),
      RaiseStmt(NameExpr("NotImplementedError")),
      RaiseStmt(CallNameExpr("NotImplementedError")),
      RaiseStmt(NameExpr("ValueError")) }

FnBodies == SeqsOf(FnStmts, 1, MaxBody)

\* statements a generated class body is made of
ClassStmts ==
    { PassStmt, EllipsisStmt, DocStmt, AnnAssignStmt,
      AssignStmt(<<NameTarget(N_RED)>>), AssignStmt(<<NameTarget(N_GREEN)>>),
      AssignStmt(<<NameTarget(N_Unknown)>>), AssignStmt(<<NameTarget(N_order)>>),
      AssignStmt(<<AttributeTarget, NameTarget(N_GREEN)>>) }

ClassBodies == SeqsOf(ClassStmts, 1, MaxMembers)

BaseLists ==
    { <<>>, <<NameBase(N_Enum)>>, <<AttributeBase(N_IntEnum)>>, <<NameBase(N_Base), OtherBase>> }

\* ways to nest a function: in a function, a class, an if, a method of a class
Wrappers == {"func", "class", "if", "deep"}

Wrap(w, inner) ==
    CASE w = "func"  -> FunctionDef("outer", <<inner>>)
      [] w = "class" -> ClassDef("C", <<>>, <<inner>>)
      [] w = "if"    -> IfStmt(<<inner>>)
      [] w = "deep"  -> ClassDef("C", <<>>, <<FunctionDef("outer", <<DocStmt, inner>>)>>)

\* short bodies used where several declarations or files are combined
SmallBodies == { <<PassStmt>>, <<ReturnStmt(ConstantExpr("int"))>>, <<ReturnStmt(NameExpr("x"))>> }

\* functions whose raise statement sits inside an if statement
NestedRaiseTrees ==
    {<<FunctionDef("f", <<IfStmt(<<RaiseStmt(e)>>)>> \o b)>> :
        e \in {NameExpr("NotImplementedError"), CallNameExpr("NotImplementedError"),
               NameExpr("ValueError")},
        b \in {<<>>, <<ReturnStmt(NameExpr("x"))>>, <<RaiseStmt(NameExpr("NotImplementedError"))>>}}

\* module bodies
Trees ==
    {<<FunctionDef("f", b)>> : b \in FnBodies}
    \cup {<<AsyncFunctionDef("f", b)>> : b \in FnBodies}
    \cup {<<Wrap(w, FunctionDef("g", b))>> : w \in Wrappers, b \in FnBodies}
    \cup {<<ClassDef("K", bs, cb)>> : bs \in BaseLists, cb \in ClassBodies}
    \cup {<<ClassDef("A", <<>>, <<FunctionDef("m", b1)>>), ClassDef("B", <<>>, <<PassStmt>>),
            FunctionDef("h", b2)>> : b1 \in SmallBodies, b2 \in SmallBodies}
    \cup NestedRaiseTrees

\* files that vary in their text (comments, tokenizer and parser outcome)
LexFiles(maxLen) ==
    {SourceFile(ts, o[1], o[2], <<NumStmt>>) : ts \in TokenStreams(maxLen), o \in LexOutcomes}

\* files that vary in their declarations
TreeFiles == {SourceFile(<<>>, "ok", FALSE, t) : t \in Trees}

\* small files, for calls on several files
SmallFiles ==
    {f \in LexFiles(1) : \A i \in DOMAIN f.tokens : f.tokens[i].string \in {<<"x">>, <<"#"," ","T","O","D","O">>}}
    \cup {SourceFile(<<>>, "ok", FALSE, <<FunctionDef("f", b)>>) : b \in SmallBodies}

\* the file lists a call may be given; the i-th file has path i
PyInputs ==
    {[i \in 1..Len(fs) |-> [fs[i] EXCEPT !.path = i]] :
        fs \in SeqsOf(LexFiles(MaxTokens) \cup TreeFiles, 1, 1) \cup SeqsOf(SmallFiles, 0, MaxFiles)}

\* _module_name_for: the dotted module name of a file below the root
_module_name_for(file) == <<"mod", file.path>>

(* ------------------------ validate_python_path ------------------------ *)
MsgTodo(text) == Msg("Comment contains TODO/FIXME: ", text)
MsgRaises == Msg("Function raises NotImplementedError", <<>>)
MsgStub == Msg("Function is a stub (pass/ellipsis only)", <<>>)
MsgConst == Msg("Function returns a constant literal (suspiciously simple)", <<>>)
MsgPlaceholderClass == Msg("Class is a placeholder (no members)", <<>>)
MsgHollowEnum == Msg("Enum has minimal/placeholder members (hollow enum)", <<>>)

\* lines 180-190: one violation per hit of the comment scan
RECURSIVE CommentViolations(_, _)
CommentViolations(hits, file) ==
    IF hits = <<>> THEN <<>>
    ELSE <<StoryViolation(_module_name_for(file), "<module>", MsgTodo(Head(hits).text),
                          INCOMPLETE_IMPLEMENTATION, file.path, Head(hits).line)>>
         \o CommentViolations(Tail(hits), file)

\* lines 205-224: the name a raise statement raises, "" when it has none
RaisedName(stmt) ==
    IF stmt.value.node \in {"Name", "CallName"} THEN stmt.value.id ELSE ""

RECURSIVE RaiseViolations(_, _, _)
RaiseViolations(body, node, file) ==
    IF body = <<>> THEN <<>>
    ELSE (IF Head(body).kind = "Raise" /\ RaisedName(Head(body)) = "NotImplementedError"
          THEN <<StoryViolation(_module_name_for(file), node.name, MsgRaises,
                                INCOMPLETE_IMPLEMENTATION, file.path, Head(body).lineno)>>
          ELSE <<>>)
         \o RaiseViolations(Tail(body), node, file)

\* lines 226-237
StubViolations(node, file) ==
    IF _is_pass_or_ellipsis_only(node.body)
    THEN <<StoryViolation(_module_name_for(file), node.name, MsgStub,
                          INCOMPLETE_IMPLEMENTATION, file.path, node.lineno)>>
    ELSE <<>>

\* the constant-return rule applied to the last statement, whatever precedes it
ConstViolations_last_statement(node, file) ==
    IF node.body # <<>> /\ node.body[Len(node.body)].kind = "Return"
       /\ node.body[Len(node.body)].value.node = "Constant"
    THEN <<StoryViolation(_module_name_for(file), node.name, MsgConst,
                          PREMATURE_CELEBRATION, file.path, node.body[Len(node.body)].lineno)>>
    ELSE <<>>

\* lines 239-251
ConstViolations(node, file) ==
    LET ret == _returns_constant_only(node)
    IN  IF ret # <<>>
        THEN <<StoryViolation(_module_name_for(file), node.name, MsgConst,
                              PREMATURE_CELEBRATION, file.path, ret[1].lineno)>>
        ELSE <<>>

\* lines 254-267
PlaceholderViolations(node, file) ==
    IF _is_pass_or_ellipsis_only(NonDoc(node.body))
    THEN <<StoryViolation(_module_name_for(file), node.name, MsgPlaceholderClass,
                          UNUSED_CODE, file.path, node.lineno)>>
    ELSE <<>>

\* lines 269-280
HollowViolations(node, file) ==
    IF _detect_enum_hollow(node)
    THEN <<StoryViolation(_module_name_for(file), node.name, MsgHollowEnum,
                          OTHER_TYPE, file.path, node.lineno)>>
    ELSE <<>>

\* lines 201-280: what visiting one node of the walk appends
NodeViolations(node, file) ==
    (IF node.kind \in {"FunctionDef", "AsyncFunctionDef"}
     THEN RaiseViolations(node.body, node, file) \o StubViolations(node, file)
          \o ConstViolations(node, file)
     ELSE <<>>)
    \o (IF node.kind = "ClassDef"
        THEN PlaceholderViolations(node, file) \o HollowViolations(node, file)
        ELSE <<>>)

\* the ast.Module node of a parsed file
ModuleNode(file) == Stmt("Module", "", <<>>, file.tree, NoExpr, <<>>)

\* the call starts: files resolved, violations = []
PyInit ==
    /\ pyFiles \in PyInputs
    /\ pyIdx = 0
    /\ pyPc = "loop"
    /\ pyTodo = <<>>
    /\ pyViolations = <<>>

\* lines 177-190: take the next file, read it, scan its comments.  An
\* IndentationError of the tokenizer is not a TokenError and leaves the call.
PyNextFile ==
    /\ pyPc = "loop"
    /\ pyIdx < Len(pyFiles)
    /\ LET file == pyFiles[pyIdx + 1]
       IN  /\ pyIdx' = pyIdx + 1
           /\ IF file.tokErr = "IndentationError"
              THEN /\ pyPc' = "raised"
                   /\ UNCHANGED pyViolations
              ELSE /\ pyViolations' = pyViolations
                        \o CommentViolations(_has_todo_or_fixme_tokens(file.tokens), file)
                   /\ pyPc' = "parse"
    /\ UNCHANGED <<pyFiles, pyTodo, valVars, cliVars, scrVars, itVars>>

\* lines 193-199: ast.parse; a SyntaxError skips to the next file
PyParse ==
    /\ pyPc = "parse"
    /\ LET file == pyFiles[pyIdx]
       IN  IF file.parseErr
           THEN pyPc' = "loop" /\ UNCHANGED pyTodo
           ELSE pyPc' = "walk" /\ pyTodo' = <<ModuleNode(file)>>
    /\ UNCHANGED <<pyFiles, pyIdx, pyViolations, valVars, cliVars, scrVars, itVars>>

\* lines 201-280: one iteration of `for node in ast.walk(tree)`; ast.walk pops
\* the leftmost node of its deque and appends that node's children
PyVisit ==
    /\ pyPc = "walk"
    /\ pyTodo # <<>>
    /\ LET node == Head(pyTodo)
       IN  /\ pyTodo' = Tail(pyTodo) \o IterChildNodes(node)
           /\ pyViolations' = pyViolations \o NodeViolations(node, pyFiles[pyIdx])
    /\ UNCHANGED <<pyFiles, pyIdx, pyPc, valVars, cliVars, scrVars, itVars>>

\* the walk is exhausted: back to the for loop over files
PyEndWalk ==
    /\ pyPc = "walk"
    /\ pyTodo = <<>>
    /\ pyPc' = "loop"
    /\ UNCHANGED <<pyFiles, pyIdx, pyTodo, pyViolations, valVars, cliVars, scrVars, itVars>>

\* line 282: return violations
PyReturn ==
    /\ pyPc = "loop"
    /\ pyIdx = Len(pyFiles)
    /\ pyPc' = "done"
    /\ UNCHANGED <<pyFiles, pyIdx, pyTodo, pyViolations, valVars, cliVars, scrVars, itVars>>


(* ====================================================================== *)
(*                  PROPERTIES OF THE SOURCE FRONTEND                      *)
(* ====================================================================== *)

\* every statement of a body, at any depth
RECURSIVE AllNodes(_)
AllNodes(body) ==
    IF body = <<>> THEN {}
    ELSE {Head(body)} \cup AllNodes(Head(body).body) \cup AllNodes(Tail(body))

\* the files of the call that ast.parse accepted
ParsedFiles == {i \in 1..Len(pyFiles) : ~pyFiles[i].parseErr}

\* the function definitions (sync or async) of file i, at any depth
FunctionsOf(i) ==
    {n \in AllNodes(pyFiles[i].tree) : n.kind \in {"FunctionDef", "AsyncFunctionDef"}}

\* the class definitions of file i, at any depth
ClassesOf(i) == {n \in AllNodes(pyFiles[i].tree) : n.kind = "ClassDef"}

\* a statement without its position
Shape(s) == [s EXCEPT !.lineno = 0]

\* the last line of a declaration
LastLine(n) == n.lineno + BodySize(n.body)

\* the violations reported for declaration n of file i
ReportedFor(i, n) ==
    {k \in DOMAIN pyViolations :
        /\ pyViolations[k].file_path = i
        /\ pyViolations[k].member = n.name
        /\ pyViolations[k].line_number \in n.lineno..LastLine(n)}

\* the violations with message m reported at line l of file i
ReportedAt(i, l, m) ==
    {k \in DOMAIN pyViolations :
        /\ pyViolations[k].file_path = i
        /\ pyViolations[k].line_number = l
        /\ pyViolations[k].violation.text = m.text}

\* the body is made of pass, `...` and docstrings only
StubShaped(n) == \A j \in DOMAIN n.body : Shape(n.body[j]) \in {PassStmt, EllipsisStmt, DocStmt}

\* C1: when validate_python_path returns, every function (sync or async, at
\* any depth) whose body holds nothing but pass, an ellipsis and/or a
\* docstring has exactly one "stub" violation, of kind
\* IncompleteImplementation, naming the function, at the function's line.
C1_StubExactlyOnce ==
    pyPc = "done" =>
        \A i \in ParsedFiles : \A n \in FunctionsOf(i) :
            StubShaped(n) =>
                /\ Cardinality(ReportedAt(i, n.lineno, MsgStub)) = 1
                /\ \A k \in ReportedAt(i, n.lineno, MsgStub) :
                      /\ pyViolations[k].violation_type = "IncompleteImplementation"
                      /\ pyViolations[k].member = n.name
                /\ Cardinality({k \in DOMAIN pyViolations :
                                   pyViolations[k].file_path = i
                                   /\ pyViolations[k].violation = MsgStub}) =
                   Cardinality({m \in FunctionsOf(i) : StubShaped(m)})

\* a returned call that analysed a nested async-or-sync function whose body
\* is a docstring followed by pass, and reported it
C1_Witness ==
    /\ pyPc = "done"
    /\ \E i \in ParsedFiles : \E n \in FunctionsOf(i) :
          /\ n.lineno > 1
          /\ Len(n.body) = 2 /\ Shape(n.body[1]) = DocStmt /\ Shape(n.body[2]) = PassStmt
          /\ ReportedAt(i, n.lineno, MsgStub) # {}

\* the body once a leading docstring is dropped
AfterDocstring(body) ==
    IF body # <<>> /\ Shape(body[1]) = DocStmt THEN Tail(body) ELSE body

\* C2: when validate_python_path returns, a function whose body, after its
\* docstring, is exactly one return of a literal constant has exactly one
\* violation, of kind PrematureCelebration; a function whose single return
\* has a non-literal expression or no expression has none.
C2_ConstantReturn ==
    pyPc = "done" =>
        \A i \in ParsedFiles : \A n \in FunctionsOf(i) :
            LET rest == AfterDocstring(n.body)
            IN  (Len(rest) = 1 /\ rest[1].kind = "Return") =>
                    IF rest[1].value.node = "Constant"
                    THEN /\ Cardinality(ReportedFor(i, n)) = 1
                         /\ \A k \in ReportedFor(i, n) :
                               /\ pyViolations[k].violation_type = "PrematureCelebration"
                               /\ pyViolations[k].line_number = rest[1].lineno
                    ELSE ReportedFor(i, n) = {}

\* a returned call that analysed `"""doc"""; return 1` and reported it
C2_Witness ==
    /\ pyPc = "done"
    /\ \E i \in ParsedFiles : \E n \in FunctionsOf(i) :
          /\ Len(n.body) = 2 /\ Shape(n.body[1]) = DocStmt
          /\ n.body[2].kind = "Return" /\ n.body[2].value.node = "Constant"
          /\ \E k \in ReportedFor(i, n) : pyViolations[k].violation = MsgConst

\* the same letter, whatever the case
SameLetter(c, d) ==
    \/ c = d
    \/ \E a \in 1..Len(UpperLetters) :
          {c, d} = {UpperLetters[a], LowerLetters[a]}

\* word w occurs in s in some letter case
HasWord(s, w) ==
    \E p \in 1..Len(s) :
        /\ p + Len(w) - 1 <= Len(s)
        /\ \A q \in 1..Len(w) : SameLetter(s[p + q - 1], w[q])

\* the comment tokens of file i
CommentsOf(i) == {t \in DOMAIN pyFiles[i].tokens : pyFiles[i].tokens[t].type = "COMMENT"}

\* the violations reported against the module of file i at line l
ModuleReportedAt(i, l) ==
    {k \in DOMAIN pyViolations :
        /\ pyViolations[k].file_path = i
        /\ pyViolations[k].member = "<module>"
        /\ pyViolations[k].line_number = l}

\* C3: when validate_python_path returns, every comment token that contains
\* "todo" or "fixme" in any letter case has exactly one violation, of kind
\* IncompleteImplementation, reported against the module at the comment's
\* 1-based line; a comment with neither marker has none.
C3_TodoComments ==
    pyPc = "done" =>
        \A i \in 1..Len(pyFiles) : \A t \in CommentsOf(i) :
            LET tok == pyFiles[i].tokens[t]
            IN  IF HasWord(tok.string, <<"t","o","d","o">>)
                   \/ HasWord(tok.string, <<"f","i","x","m","e">>)
                THEN /\ Cardinality(ModuleReportedAt(i, t)) = 1
                     /\ \A k \in ModuleReportedAt(i, t) :
                           pyViolations[k].violation_type = "IncompleteImplementation"
                ELSE ModuleReportedAt(i, t) = {}

\* a returned call whose file has an upper-case TODO comment on line 2
C3_Witness ==
    /\ pyPc = "done"
    /\ \E i \in 1..Len(pyFiles) :
          /\ 2 \in CommentsOf(i)
          /\ pyFiles[i].tokens[2].string = <<"#"," ","T","O","D","O">>
          /\ ModuleReportedAt(i, 2) # {}

\* the names a class body assigns: (statement, target) positions
AssignedNames(cls) ==
    {p \in UNION {{<<j, t>> : t \in DOMAIN cls.body[j].targets} : j \in DOMAIN cls.body} :
        /\ cls.body[p[1]].kind = "Assign"
        /\ cls.body[p[1]].targets[p[2]].node = "Name"}

NameAt(cls, p) == cls.body[p[1]].targets[p[2]].id

\* a dunder name
IsDunder(name) ==
    /\ Len(name) >= 2
    /\ name[1] = "_" /\ name[2] = "_"
    /\ name[Len(name)] = "_" /\ name[Len(name) - 1] = "_"

\* name is w in some letter case
IsWord(name, w) == Len(name) = Len(w) /\ HasWord(name, w)

\* a placeholder name
IsPlaceholder(name) == \E w \in _PLACEHOLDER_NAMES : IsWord(name, w)

\* the class names the enumeration base type among its bases
InheritsEnum(cls) ==
    \E b \in DOMAIN cls.bases :
        /\ cls.bases[b].node \in {"Name", "Attribute"}
        /\ \/ IsWord(cls.bases[b].id, <<"e","n","u","m">>)
           \/ IsWord(cls.bases[b].id, <<"i","n","t","e","n","u","m">>)

\* the assigned members that are neither dunder nor placeholder names
MeaningfulMembers(cls) ==
    {p \in AssignedNames(cls) : ~IsDunder(NameAt(cls, p)) /\ ~IsPlaceholder(NameAt(cls, p))}

\* C4: when validate_python_path returns, a class is reported as a hollow
\* enum exactly when it inherits from the enumeration base type and at most
\* one of its assigned members is neither a dunder nor a placeholder name;
\* `class K(Enum): RED = 1` is reported, `class K(Enum): RED = 1; GREEN = 2`
\* is not.
C4_HollowEnum ==
    pyPc = "done" =>
        \A i \in ParsedFiles : \A c \in ClassesOf(i) :
            /\ Cardinality(ReportedAt(i, c.lineno, MsgHollowEnum)) =
                  (IF InheritsEnum(c) /\ Cardinality(MeaningfulMembers(c)) <= 1 THEN 1 ELSE 0)
            /\ (c.bases = <<NameBase(N_Enum)>>
                /\ [j \in DOMAIN c.body |-> Shape(c.body[j])] = <<AssignStmt(<<NameTarget(N_RED)>>)>>)
                  => ReportedAt(i, c.lineno, MsgHollowEnum) # {}
            /\ (c.bases = <<NameBase(N_Enum)>>
                /\ [j \in DOMAIN c.body |-> Shape(c.body[j])] =
                     <<AssignStmt(<<NameTarget(N_RED)>>), AssignStmt(<<NameTarget(N_GREEN)>>)>>)
                  => ReportedAt(i, c.lineno, MsgHollowEnum) = {}

\* a returned call that analysed an enum with two meaningful members and
\* reported nothing for it
C4_Witness ==
    /\ pyPc = "done"
    /\ \E i \in ParsedFiles : \E c \in ClassesOf(i) :
          /\ InheritsEnum(c)
          /\ Cardinality(MeaningfulMembers(c)) = 2
          /\ ReportedAt(i, c.lineno, MsgHollowEnum) = {}

\* the files of the call that can be neither tokenized nor parsed
BrokenFiles == {i \in 1..Len(pyFiles) : pyFiles[i].tokErr # "ok" \/ pyFiles[i].parseErr}

\* C17: a file that cannot be tokenized or parsed never aborts the run:
\* validate_python_path does not leave by an exception, and when it returns
\* every file of the list has been taken and every file that tokenizes and
\* parses has its marked comments reported.
C17_BrokenFileNeverAborts ==
    /\ pyPc # "raised"
    /\ pyPc = "done" =>
          /\ pyIdx = Len(pyFiles)
          /\ \A i \in (1..Len(pyFiles)) \ BrokenFiles : \A t \in CommentsOf(i) :
                HasWord(pyFiles[i].tokens[t].string, <<"t","o","d","o">>)
                    => ModuleReportedAt(i, t) # {}

\* C18: a file that fails to parse is skipped entirely: the list that
\* validate_python_path returns holds no violation whose file_path is it.
C18_UnparsedFileSkipped ==
    pyPc = "done" =>
        \A k \in DOMAIN pyViolations : ~pyFiles[pyViolations[k].file_path].parseErr

(* ====================================================================== *)
(*        BINARY FRONTEND: validator.py (StoryTestValidator)               *)
(* ====================================================================== *)

(* ------------------ what the reflection API hands back ---------------- *)
\* opcodes that occur in the generated method bodies
OP_NOP == 0
OP_LDC_I4_0 == 22
OP_RET == 42
OP_NEWOBJ == 115
OP_THROW == 122

ILBytes == {OP_NOP, OP_LDC_I4_0, OP_RET, OP_NEWOBJ, OP_THROW}

\* longest instruction tail of a generated method body
MaxIL == 2

\* n nop bytes
Nops(n) == [i \in 1..n |-> OP_NOP]

\* method bodies: an instruction tail, alone or behind eight nops
ILBodies == {Nops(k) \o c : k \in {0, 8}, c \in SeqsOf(ILBytes, 0, MaxIL)}

\* MethodInfo: Name, IsSpecialName, DeclaringType (the name of the type that
\* declares it), body ("none" when GetMethodBody() is None, "throws" when it
\* raises, else "il") and il, the bytes of GetILAsByteArray()
MethodInfo(name, special, declaring, body, il) ==
    [Name |-> name, IsSpecialName |-> special, DeclaringType |-> declaring,
     body |-> body, il |-> il]

\* Type: Name, FullName, IsEnum, the result of GetMethods(flags) - inherited
\* methods included, since the flags lack DeclaredOnly - and whether
\* GetMethods raises
TypeInfo(name, fullName, isEnum, methods, getMethodsThrows) ==
    [Name |-> name, FullName |-> fullName, IsEnum |-> isEnum, methods |-> methods,
     getMethodsThrows |-> getMethodsThrows]

\* an assembly file:
\*   exists          os.path.exists
\*   reflectionOnly  Assembly.ReflectionOnlyLoadFrom works
\*   refs            names of the referenced assemblies
\*   loadErr         how Assembly.LoadFrom / GetTypes ends: "none", or the
\*                   kind of message of the exception ("unity", "other")
\*   name            assembly.GetName().Name
\*   types           assembly.GetTypes()
\*   config          findings of the mental-model configuration near it
AssemblyFile(exists, reflectionOnly, refs, loadErr, name, types, config) ==
    [path |-> <<"dll", 0>>, exists |-> exists, reflectionOnly |-> reflectionOnly,
     refs |-> refs, loadErr |-> loadErr, name |-> name, types |-> types,
     config |-> config]

M_Run == <<"R","u","n">>
M_Lambda == <<"<","R","u","n",">","b","_","_","0">>
M_Finalize == <<"F","i","n","a","l","i","z","e">>
M_ctor == <<".","c","t","o","r">>
M_cctor == <<".","c","c","t","o","r">>
M_ToString == <<"T","o","S","t","r","i","n","g">>
M_GetObjectData == <<"G","e","t","O","b","j","e","c","t","D","a","t","a">>
M_IConvertible == <<"S","y","s","t","e","m",".","I","C","o","n","v","e","r","t","i","b","l","e",".","T","o","I","n","t","3","2">>
M_get_Item == <<"g","e","t","_","I","t","e","m">>

T_Widget == <<"W","i","d","g","e","t">>
T_Base == <<"B","a","s","e">>
T_Color == <<"C","o","l","o","r">>
T_DisplayClass == <<"<",">","c">>
T_Generated == <<"_","_","S","t","a","t","i","c","A","r","r","a","y","I","n","i","t">>
T_WidgetTest == <<"W","i","d","g","e","t","T","e","s","t">>
A_Lib == <<"L","i","b">>
A_LibTests == <<"L","i","b","T","e","s","t","s">>

EnumInterfaceMethods == {<<"H","a","s","F","l","a","g">>, <<"C","o","m","p","a","r","e","T","o">>, M_ToString, <<"G","e","t","H","a","s","h","C","o","d","e">>, <<"E","q","u","a","l","s">>}

DelegateMethods == {<<"C","o","m","b","i","n","e","I","m","p","l">>, M_GetObjectData, <<"G","e","t","I","n","v","o","c","a","t","i","o","n","L","i","s","t">>, <<"B","e","g","i","n","I","n","v","o","k","e">>, <<"E","n","d","I","n","v","o","k","e">>}

(* ----------------------------- the rules ------------------------------ *)
MsgNotImplemented == Msg("Method contains NotImplementedException", <<>>)
MsgEmpty == Msg("Empty method - no implementation", <<>>)
MsgArtifact == Msg("Mental model claims required artifact that doesn't exist: ", <<"d","o","c","s">>)
MsgBadJson == Msg("Mental model configuration is not valid JSON", <<>>)

\* _contains_not_implemented_exception
_contains_not_implemented_exception(il_bytes) ==
    IF Len(il_bytes) < 10 THEN FALSE
    ELSE (\E i \in DOMAIN il_bytes : il_bytes[i] = OP_NEWOBJ)
         /\ (\E i \in DOMAIN il_bytes : il_bytes[i] = OP_THROW)

\* lines 181-196: the methods _validate_type passes over
SkipsMethod(method, type_obj, asm) ==
    \/ method.IsSpecialName
    \/ StartsWith(method.Name, <<"<">>)
    \/ method.Name = M_Finalize
    \/ method.Name = M_ctor
    \/ method.Name = M_cctor
    \/ (method.Name \in EnumInterfaceMethods /\ type_obj.IsEnum)
    \/ method.Name \in DelegateMethods
    \/ StartsWith(method.Name, <<"S","y","s","t","e","m",".","I","C","o","n","v","e","r","t","i","b","l","e",".">>)
    \/ Contains(type_obj.FullName, <<"T","e","s","t">>)
    \/ Contains(asm.name, <<"T","e","s","t","s">>)

\* lines 198-221: what one method that is not passed over appends
MethodViolations(method, type_obj, asm) ==
    IF method.body \in {"throws", "none"} THEN <<>>
    ELSE (IF _contains_not_implemented_exception(method.il)
          THEN <<StoryViolation(type_obj.Name, method.Name, MsgNotImplemented,
                                INCOMPLETE_IMPLEMENTATION, asm.path, 0)>>
          ELSE <<>>)
         \o (IF Len(method.il) <= 2
             THEN <<StoryViolation(type_obj.Name, method.Name, MsgEmpty,
                                   INCOMPLETE_IMPLEMENTATION, asm.path, 0)>>
             ELSE <<>>)

RECURSIVE MethodsViolations(_, _, _)
MethodsViolations(methods, type_obj, asm) ==
    IF methods = <<>> THEN <<>>
    ELSE (IF SkipsMethod(Head(methods), type_obj, asm) THEN <<>>
          ELSE MethodViolations(Head(methods), type_obj, asm))
         \o MethodsViolations(Tail(methods), type_obj, asm)

\* _validate_type: the violations it appends; a raising GetMethods leaves the
\* function before anything is appended (validate_assembly catches it)
_validate_type(type_obj, asm) ==
    IF StartsWith(type_obj.Name, <<"<">>) \/ StartsWith(type_obj.Name, <<"_","_">>) THEN <<>>
    ELSE IF type_obj.getMethodsThrows THEN <<>>
    ELSE MethodsViolations(type_obj.methods, type_obj, asm)

\* lines 150-155: first pass over the types
RECURSIVE TypesViolations(_, _)
TypesViolations(types, asm) ==
    IF types = <<>> THEN <<>>
    ELSE _validate_type(Head(types), asm) \o TypesViolations(Tail(types), asm)

\* the configuration file found for an assembly
ConfigPath(asm) == <<"storytest-mental-model.json", asm.path[2]>>

\* _validate_assembly_level: Acts 12 and 13
_validate_assembly_level(asm) ==
    (IF asm.config = "missing_artifact"
     THEN <<StoryViolation(<<"[","A","s","s","e","m","b","l","y","]">>, <<"[","A","s","s","e","m","b","l","y","]">>, MsgArtifact, OTHER_TYPE, ConfigPath(asm), 0)>>
     ELSE <<>>)
    \o (IF asm.config = "bad_json"
        THEN <<StoryViolation(<<"[","A","s","s","e","m","b","l","y","]">>, <<"[","A","s","s","e","m","b","l","y","]">>, MsgBadJson, OTHER_TYPE, asm.path, 0)>>
        ELSE <<>>)

\* is_unity_assembly
is_unity_assembly(asm) ==
    IF asm.reflectionOnly
    THEN LET unity_refs == {r \in asm.refs : r \in {"UnityEngine", "UnityEngine.CoreModule", "UnityEngine.UI"}}
             core_unity_refs == {r \in unity_refs :
                                   r \in {"UnityEngine.CoreModule", "UnityEngine", "UnityEditor"}}
         IN  core_unity_refs # {}
    ELSE IF asm.loadErr = "none" THEN FALSE
    ELSE asm.loadErr = "unity"

\* is the unit left unanalysed (missing, Unity-dependent, load error)?
IsSkipped(asm) == ~asm.exists \/ is_unity_assembly(asm) \/ asm.loadErr # "none"

\* validate_assembly with the list emptied when the path does not exist
validate_assembly_missing_resets(selfViolations, asm) ==
    IF ~asm.exists THEN <<>>
    ELSE IF is_unity_assembly(asm) THEN selfViolations
    ELSE IF asm.loadErr # "none" THEN selfViolations
    ELSE selfViolations \o TypesViolations(asm.types, asm) \o _validate_assembly_level(asm)

\* validate_assembly: self.violations after the call, which is also the
\* list the call returns; selfViolations is self.violations before it
validate_assembly(selfViolations, asm) ==
    IF ~asm.exists THEN selfViolations
    ELSE IF is_unity_assembly(asm) THEN selfViolations
    ELSE IF asm.loadErr # "none" THEN selfViolations
    ELSE selfViolations \o TypesViolations(asm.types, asm) \o _validate_assembly_level(asm)

(* ------------------------- the analysed inputs ------------------------ *)
\* most assemblies on disk when validate_assembly is called directly
MaxDisk == 2
\* most validate_assembly calls on one validator instance
MaxCalls == 3
\* most assemblies the driver finds in a directory
MaxUnits == 3

MethodNames ==
    {M_Run, M_Lambda, M_Finalize, M_ctor, M_ToString, M_GetObjectData,
     M_IConvertible, M_get_Item}

\* one method in every combination of name, declaring type and body
Methods(typeName) ==
    {MethodInfo(n, n \in {M_get_Item, M_ctor}, d, "il", b) :
        n \in MethodNames, d \in {typeName, T_Base}, b \in ILBodies}
    \cup {MethodInfo(n, FALSE, typeName, b, <<>>) : n \in MethodNames, b \in {"none", "throws"}}

\* a method with an empty body, declared on the type itself
EmptyRun(typeName) == MethodInfo(M_Run, FALSE, typeName, "il", <<OP_RET>>)

\* a plain loadable assembly with the given types
Loadable(types, config) == AssemblyFile(TRUE, FALSE, {}, "none", A_Lib, types, config)

\* a type whose first method raises in GetMethodBody, followed by a sibling
\* method and by a later type
ThrowingMemberAssemblies ==
    {Loadable(<<TypeInfo(T_Widget, T_Widget, FALSE,
                         <<MethodInfo(M_Run, FALSE, T_Widget, b, <<>>),
                           MethodInfo(M_ToString, FALSE, T_Widget, "il", <<OP_RET>>)>>, FALSE),
                TypeInfo(T_Color, T_Color, TRUE, <<EmptyRun(T_Color)>>, FALSE)>>, "none") :
        b \in {"throws", "none"}}

\* assemblies that vary in one method or in one type
RichAssemblies ==
    {Loadable(<<TypeInfo(T_Widget, T_Widget, FALSE, <<m>>, FALSE)>>, "none") : m \in Methods(T_Widget)}
    \cup {Loadable(<<TypeInfo(T_Color, T_Color, TRUE, <<m>>, FALSE)>>, "none") : m \in Methods(T_Color)}
    \cup {Loadable(<<TypeInfo(n, n, FALSE, <<EmptyRun(n)>>, FALSE)>>, "none") :
             n \in {T_DisplayClass, T_Generated, T_WidgetTest}}
    \cup {AssemblyFile(TRUE, FALSE, {}, "none", A_LibTests,
                       <<TypeInfo(T_Widget, T_Widget, FALSE, <<EmptyRun(T_Widget)>>, FALSE)>>, "none")}
    \cup {Loadable(<<TypeInfo(T_Widget, T_Widget, FALSE, <<EmptyRun(T_Widget)>>, t),
                     TypeInfo(T_Color, T_Color, TRUE, <<EmptyRun(T_Color), EmptyRun(T_Color)>>, FALSE)>>, c) :
             t \in BOOLEAN, c \in {"none", "missing_artifact", "bad_json"}}
    \cup ThrowingMemberAssemblies

\* small assemblies, for runs over several units: clean, one violation, two
\* violations, Unity-dependent (seen in the references or in the load
\* error), failing to load
SmallAssemblies ==
    { Loadable(<<TypeInfo(T_Widget, T_Widget, FALSE, <<>>, FALSE)>>, "none"),
      Loadable(<<TypeInfo(T_Widget, T_Widget, FALSE, <<EmptyRun(T_Widget)>>, FALSE)>>, "none"),
      Loadable(<<TypeInfo(T_Widget, T_Widget, FALSE, <<EmptyRun(T_Widget)>>, FALSE)>>, "bad_json"),
      AssemblyFile(TRUE, TRUE, {"System", "UnityEngine.CoreModule"}, "none", A_Lib,
                   <<TypeInfo(T_Widget, T_Widget, FALSE, <<EmptyRun(T_Widget)>>, FALSE)>>, "none"),
      AssemblyFile(TRUE, TRUE, {"System", "UnityEditor"}, "none", A_Lib,
                   <<TypeInfo(T_Widget, T_Widget, FALSE, <<>>, FALSE)>>, "none"),
      AssemblyFile(TRUE, FALSE, {}, "unity", A_Lib, <<>>, "none"),
      AssemblyFile(TRUE, FALSE, {}, "other", A_Lib, <<>>, "none") }

\* a path with no file behind it
MissingAssembly == AssemblyFile(FALSE, FALSE, {}, "none", A_Lib, <<>>, "none")

\* the i-th assembly gets the path <<"dll", i>>
Placed(as) == [i \in 1..Len(as) |-> [as[i] EXCEPT !.path = <<"dll", i>>]]

(* ------------------ direct use of StoryTestValidator ------------------ *)
\* StoryTestValidator.__init__
ValInit ==
    /\ disk \in {Placed(as) : as \in SeqsOf(RichAssemblies, 1, 1)
                                     \cup SeqsOf(SmallAssemblies \cup {MissingAssembly}, 1, MaxDisk)}
    /\ violations = <<>>
    /\ calls = <<>>

\* validator.validate_assembly(path) for the path of unit u
ValidateAssembly(u) ==
    /\ Len(calls) < MaxCalls
    /\ violations' = validate_assembly(violations, disk[u])
    /\ calls' = Append(calls, [unit |-> u, returned |-> violations'])
    /\ UNCHANGED <<disk, pyVars, cliVars, scrVars, itVars>>

(* ------------------------ cli.py run_validation ----------------------- *)
NoReport == [totalViolations |-> -1, violations |-> <<>>, violationsByType |-> <<>>]

\* the command lines: path kinds "dll" (one assembly file), "unity_project",
\* "directory" (any other directory) and "invalid"
CliArgs ==
    [kind : {"dll", "unity_project", "directory", "invalid"},
     fail_on_violations : BOOLEAN, output : BOOLEAN]

\* the assemblies behind args.path: found files exist
CliDisks(kind) ==
    CASE kind = "dll" -> {Placed(as) : as \in SeqsOf(RichAssemblies \cup SmallAssemblies, 1, 1)}
      [] kind = "invalid" -> {<<>>}
      [] OTHER -> {Placed(as) : as \in SeqsOf(SmallAssemblies, 0, MaxUnits)}

\* lines 70-73
CliInit ==
    /\ args \in CliArgs
    /\ disk \in CliDisks(args.kind)
    /\ violations = <<>>
    /\ calls = <<>>
    /\ cliPc = "start"
    /\ cliIdx = 0
    /\ all_violations = <<>>
    /\ report = NoReport
    /\ emitted = NoReport
    /\ exitCode = -1

\* lines 75-77: a single DLL file
CliSingleDll ==
    /\ cliPc = "start"
    /\ args.kind = "dll"
    /\ violations' = validate_assembly(violations, disk[1])
    /\ all_violations' = violations'
    /\ cliIdx' = 1
    /\ cliPc' = "report"
    /\ UNCHANGED <<args, disk, calls, report, emitted, exitCode, pyVars, scrVars, itVars>>

\* lines 79-96: a directory; a plain directory without DLLs exits with 1
CliDirectory ==
    /\ cliPc = "start"
    /\ args.kind \in {"unity_project", "directory"}
    /\ IF args.kind = "directory" /\ disk = <<>>
       THEN cliPc' = "exited" /\ exitCode' = 1
       ELSE cliPc' = "loop" /\ UNCHANGED exitCode
    /\ UNCHANGED <<args, disk, violations, calls, cliIdx, all_violations, report, emitted, pyVars, scrVars, itVars>>

\* lines 102-104
CliInvalidPath ==
    /\ cliPc = "start"
    /\ args.kind = "invalid"
    /\ cliPc' = "exited"
    /\ exitCode' = 1
    /\ UNCHANGED <<args, disk, violations, calls, cliIdx, all_violations, report, emitted, pyVars, scrVars, itVars>>

\* lines 86-88 and 98-100: one iteration of the for loop
CliValidateNext ==
    /\ cliPc = "loop"
    /\ cliIdx < Len(disk)
    /\ violations' = validate_assembly(violations, disk[cliIdx + 1])
    /\ all_violations' = all_violations \o violations'
    /\ cliIdx' = cliIdx + 1
    /\ UNCHANGED <<args, disk, calls, cliPc, report, emitted, exitCode, pyVars, scrVars, itVars>>

\* StoryViolation.to_dict
to_dict(v) ==
    [type |-> v.type_name, member |-> v.member, violation |-> v.violation,
     filePath |-> v.file_path, lineNumber |-> v.line_number,
     violationType |-> v.violation_type]

\* line 114: sum(1 for v in vs if v.violation_type == v_type)
CountOfType(vs, v_type) == Cardinality({i \in DOMAIN vs : vs[i].violation_type = v_type})

\* the report with an entry for every kind, zero counts included
GenerateReport_all_kinds(vs) ==
    [totalViolations |-> Len(vs),
     violations |-> [i \in DOMAIN vs |-> to_dict(vs[i])],
     violationsByType |->
        [t \in {StoryViolationType[k] : k \in DOMAIN StoryViolationType} |-> CountOfType(vs, t)]]

\* lines 106-116
GenerateReport(vs) ==
    [totalViolations |-> Len(vs),
     violations |-> [i \in DOMAIN vs |-> to_dict(vs[i])],
     violationsByType |->
        [t \in {StoryViolationType[k] : k \in {j \in DOMAIN StoryViolationType :
                                                 CountOfType(vs, StoryViolationType[j]) > 0}}
           |-> CountOfType(vs, t)]]

\* lines 106-116: the loop is over, the report is built
CliGenerateReport ==
    /\ \/ cliPc = "report"
       \/ cliPc = "loop" /\ cliIdx = Len(disk)
    /\ report' = GenerateReport(all_violations)
    /\ cliPc' = "output"
    /\ UNCHANGED <<args, disk, violations, calls, cliIdx, all_violations, emitted, exitCode, pyVars, scrVars, itVars>>

\* lines 118-124: json.dump to args.output, or print_report
CliOutput ==
    /\ cliPc = "output"
    /\ emitted' = report
    /\ cliPc' = "exit"
    /\ UNCHANGED <<args, disk, violations, calls, cliIdx, all_violations, report, exitCode, pyVars, scrVars, itVars>>

\* the exit status that ignores the --fail-on-violations flag
CliExit_ignores_flag ==
    /\ cliPc = "exit"
    /\ exitCode' = IF all_violations # <<>> THEN 1 ELSE 0
    /\ cliPc' = "exited"
    /\ UNCHANGED <<args, disk, violations, calls, cliIdx, all_violations, report, emitted, pyVars, scrVars, itVars>>

\* lines 126-130
CliExit ==
    /\ cliPc = "exit"
    /\ exitCode' = IF args.fail_on_violations /\ all_violations # <<>> THEN 1 ELSE 0
    /\ cliPc' = "exited"
    /\ UNCHANGED <<args, disk, violations, calls, cliIdx, all_violations, report, emitted, pyVars, scrVars, itVars>>

(* ====================================================================== *)
(*     BINARY FRONTEND: scripts/story_test.py (the standalone script)      *)
(* ====================================================================== *)

(* ------------------ what the reflection API hands back ---------------- *)
\* further opcodes that ILAnalyzer looks for
OP_LDNULL == 20
OP_LDC_I4_M1 == 21
OP_LDC_I4_1 == 23

\* attribute types, as str(attr.GetType()) prints them
AT_StoryIgnore == <<"S","t","o","r","y","T","e","s","t",".","S","t","o","r","y","I","g","n","o","r","e","A","t","t","r","i","b","u","t","e">>
AT_Obsolete == <<"S","y","s","t","e","m",".","O","b","s","o","l","e","t","e","A","t","t","r","i","b","u","t","e">>
AT_Complete == <<"G","a","m","e",".","C","o","m","p","l","e","t","e","A","t","t","r","i","b","u","t","e">>
AT_Serializable == <<"S","y","s","t","e","m",".","S","e","r","i","a","l","i","z","a","b","l","e","A","t","t","r","i","b","u","t","e">>

\* a method as reflection describes it:
\*   Name, IsSpecialName, IsStatic, IsAbstract, IsVirtual
\*   DeclaringType     name of the type that declares it
\*   declaringErr      comparing DeclaringType with the analysed type raises
\*   ReturnType        str(method.ReturnType); "raises" when reading it raises
\*   attrs, attrsErr   GetCustomAttributes(False): the attribute types, or raises
\*   body, il          GetMethodBody(): "none" (None), "raises", or "il" with
\*                     the bytes of GetILAsByteArray()
\*   referenced        some method body of the assembly calls it
\* the method below is a public instance method of the type that declares it
\* and returns void
Method(name, declaring, il) ==
    [Name |-> name, IsSpecialName |-> FALSE, IsStatic |-> FALSE, IsAbstract |-> FALSE,
     IsVirtual |-> FALSE, DeclaringType |-> declaring, declaringErr |-> FALSE,
     ReturnType |-> "System.Void", attrs |-> {}, attrsErr |-> FALSE,
     body |-> "il", il |-> il, referenced |-> TRUE]

\* a field: Name, and whether some method body of the assembly reads it
Field(name, referenced) == [Name |-> name, referenced |-> referenced]

\* a property: Name, IsStatic, its attributes, and whether some method body
\* of the assembly calls one of its accessors
Property(name, referenced) ==
    [Name |-> name, IsStatic |-> FALSE, attrs |-> {}, attrsErr |-> FALSE,
     referenced |-> referenced]

\* a type as reflection describes it:
\*   Name, IsInterface, IsAbstract, IsEnum
\*   enumNames, enumErr   Enum.GetNames / GetValues: the names, or raises
\*   attrs, attrsErr      GetCustomAttributes(False)
\*   methods, methodsErr  GetMethods(flags) with Instance and Static - inherited
\*                        methods included - or raises
\*   fields               GetFields(flags): the instance fields
\*   properties, propertiesErr   GetProperties(flags), or raises
\*   readErr              the message of the exception that reading a plain
\*                        attribute of the type raises ("none" when it does not)
\* the type below is a plain class
Type(name, methods) ==
    [Name |-> name, IsInterface |-> FALSE, IsAbstract |-> FALSE, IsEnum |-> FALSE,
     enumNames |-> <<>>, enumErr |-> FALSE, attrs |-> {}, attrsErr |-> FALSE,
     methods |-> methods, methodsErr |-> FALSE, fields |-> <<>>,
     properties |-> <<>>, propertiesErr |-> FALSE, readErr |-> "none"]

\* an assembly file as the script sees it:
\*   exists            os.path.exists
\*   loadErr           Assembly.LoadFrom raises
\*   types, typesErr   assembly.GetTypes(), or raises
\*   exportedErr       assembly.GetExportedTypes() raises too
\*   (GetExportedTypes() hands back the public types; here all types are)
Assembly(types) ==
    [path |-> <<"dll", 0>>, exists |-> TRUE, loadErr |-> FALSE, types |-> types,
     typesErr |-> FALSE, exportedErr |-> FALSE]

(* ----------------------------- ILAnalyzer ----------------------------- *)
\* ILAnalyzer.contains_throw_not_implemented, with the offsets counted from 1
contains_throw_not_implemented_any_offset(il_bytes) ==
    /\ \E i \in DOMAIN il_bytes : il_bytes[i] = OP_NEWOBJ
    /\ \E i \in DOMAIN il_bytes : il_bytes[i] = OP_THROW

contains_throw_not_implemented(il_bytes) ==
    \E i \in 1..(Len(il_bytes) - 4) :
        /\ il_bytes[i] = OP_NEWOBJ
        /\ i + 5 <= Len(il_bytes)
        /\ il_bytes[i + 5] = OP_THROW

\* ILAnalyzer.is_only_default_return, for a method whose ReturnType can be read
is_only_default_return_any_length(method_info, il_bytes) ==
    /\ method_info.ReturnType # "System.Void"
    /\ \E i \in 1..(Len(il_bytes) - 1) :
          /\ il_bytes[i] \in {OP_LDNULL, OP_LDC_I4_0, OP_LDC_I4_1}
          /\ il_bytes[i + 1] = OP_RET

is_only_default_return(method_info, il_bytes) ==
    IF method_info.ReturnType = "System.Void" THEN FALSE
    ELSE IF Len(il_bytes) = 0 THEN FALSE
    ELSE IF Len(il_bytes) <= 8
         THEN \E i \in 1..(Len(il_bytes) - 1) :
                  /\ il_bytes[i] \in {OP_LDNULL, OP_LDC_I4_0, OP_LDC_I4_1}
                  /\ il_bytes[i + 1] = OP_RET
         ELSE FALSE

\* the static methods class ILAnalyzer defines
ILAnalyzerMethods == {"contains_throw_not_implemented", "is_only_default_return"}

(* ------------------------- the Member Classifier ---------------------- *)
\* _has_story_ignore_attribute: a raising GetCustomAttributes counts as no
\* marker
_has_story_ignore_attribute(member) ==
    IF member.attrsErr THEN FALSE
    ELSE \E attr \in member.attrs : Contains(attr, <<"S","t","o","r","y","I","g","n","o","r","e">>)

\* test_is_compiler_generated_member_name of test_iterator_fix.py
test_is_compiler_generated_member_name(name) ==
    IF Contains(name, <<"<">>) \/ Contains(name, <<">">>) \/ Contains(name, <<"$">>) THEN TRUE
    ELSE IF Contains(name, <<"b","_","_">>) THEN TRUE
    ELSE IF Contains(name, <<"k","_","_","B","a","c","k","i","n","g","F","i","e","l","d">>) THEN TRUE
    ELSE IF Contains(name, <<".">>)
            /\ (Contains(name, <<"I","E","n","u","m","e","r","a","t","o","r">>) \/ Contains(name, <<"I","A","s","y","n","c","S","t","a","t","e","M","a","c","h","i","n","e">>))
         THEN TRUE
    ELSE FALSE

\* _is_compiler_generated
_is_compiler_generated_no_forwarders(member_name, type_name) ==
    \/ Contains(type_name, <<"<">>) \/ Contains(type_name, <<">">>) \/ Contains(type_name, <<"$">>)
    \/ Contains(type_name, <<"d","_","_">>)
    \/ Contains(member_name, <<"<">>) \/ Contains(member_name, <<">">>) \/ Contains(member_name, <<"$">>)
    \/ Contains(member_name, <<"b","_","_">>)
    \/ Contains(member_name, <<"k","_","_","B","a","c","k","i","n","g","F","i","e","l","d">>)

_is_compiler_generated(member_name, type_name) ==
    IF Contains(type_name, <<"<">>) \/ Contains(type_name, <<">">>) \/ Contains(type_name, <<"$">>)
    THEN TRUE
    ELSE IF Contains(type_name, <<"d","_","_">>) THEN TRUE
    ELSE IF Contains(member_name, <<"<">>) \/ Contains(member_name, <<">">>)
            \/ Contains(member_name, <<"$">>)
         THEN TRUE
    ELSE IF Contains(member_name, <<"b","_","_">>) THEN TRUE
    ELSE IF Contains(member_name, <<"k","_","_","B","a","c","k","i","n","g","F","i","e","l","d">>) THEN TRUE
    ELSE IF Contains(member_name, <<".">>)
            /\ (Contains(member_name, <<"I","E","n","u","m","e","r","a","t","o","r">>)
                \/ Contains(member_name, <<"I","A","s","y","n","c","S","t","a","t","e","M","a","c","h","i","n","e">>))
         THEN TRUE
    ELSE FALSE

\* _validate_method lines 280-298: does the method get past the classifier?
\* A DeclaringType comparison that raises lets the method through.
ReachesRules_inherited_too(type_obj, method) ==
    /\ ~_has_story_ignore_attribute(method)
    /\ ~_is_compiler_generated(method.Name, type_obj.Name)
    /\ ~method.IsSpecialName

ReachesRules(type_obj, method) ==
    /\ ~_has_story_ignore_attribute(method)
    /\ ~_is_compiler_generated(method.Name, type_obj.Name)
    /\ ~method.IsSpecialName
    /\ (method.declaringErr \/ method.DeclaringType = type_obj.Name)

(* ----------------------------- the rules ------------------------------ *)
MsgThrowNotImplemented ==
    Msg("Method contains NotImplementedException indicating TODO implementation", <<>>)
MsgDefaultReturn == Msg("Method only returns default value without implementation", <<>>)
MsgAbstractMethods(names) == Msg("Class has unimplemented abstract methods: ", names)
MsgUnsealedAbstract ==
    Msg("Abstract method in non-abstract class (unsealed narrative element)", <<>>)
MsgDebugOnly == Msg("Debug/Test method without Obsolete attribute (should be temporary)", <<>>)
MsgPhantomProp == Msg("Phantom property detected - name suggests it's unused", <<>>)
MsgColdMethod == Msg("Cold method detected - method body is empty or minimal", <<>>)
MsgHollowEnumValues ==
    Msg("Hollow enum detected - enum has no or minimal values defined", <<>>)
MsgHollowEnumNames(names) ==
    Msg("Hollow enum detected - contains placeholder values: ", names)
MsgPrematureCelebration ==
    Msg("Premature celebration - marked as complete but throws NotImplementedException", <<>>)
MsgSuspiciouslySimple ==
    Msg("Suspiciously simple method - returns constant/null/default with no logic", <<>>)
MsgDeadField == Msg("Dead code - field is never read", <<>>)
MsgDeadMethod == Msg("Dead code - method is never invoked", <<>>)
MsgDeadProperty == Msg("Dead code - property is never accessed", <<>>)

\* ", ".join(names)
RECURSIVE Join(_)
Join(names) ==
    IF names = <<>> THEN <<>>
    ELSE IF Len(names) = 1 THEN names[1]
    ELSE names[1] \o <<",", " ">> \o Join(Tail(names))

\* Acts 1 and 2, _check_todo_and_placeholders; an exception of GetMethodBody
\* or of ReturnType ends the check with what has been appended
_check_todo_and_placeholders_both(method, type_obj, asm) ==
    IF method.body # "il" THEN <<>>
    ELSE (IF contains_throw_not_implemented(method.il)
          THEN <<StoryViolation(type_obj.Name, method.Name, MsgThrowNotImplemented,
                                INCOMPLETE_IMPLEMENTATION, asm.path, 0)>>
          ELSE <<>>)
         \o (IF method.ReturnType # "raises" /\ is_only_default_return(method, method.il)
             THEN <<StoryViolation(type_obj.Name, method.Name, MsgDefaultReturn,
                                   INCOMPLETE_IMPLEMENTATION, asm.path, 0)>>
             ELSE <<>>)

_check_todo_and_placeholders(method, type_obj, asm) ==
    IF method.body # "il" THEN <<>>
    ELSE IF contains_throw_not_implemented(method.il)
    THEN <<StoryViolation(type_obj.Name, method.Name, MsgThrowNotImplemented,
                          INCOMPLETE_IMPLEMENTATION, asm.path, 0)>>
    ELSE IF method.ReturnType = "raises" THEN <<>>
    ELSE IF is_only_default_return(method, method.il)
    THEN <<StoryViolation(type_obj.Name, method.Name, MsgDefaultReturn,
                          INCOMPLETE_IMPLEMENTATION, asm.path, 0)>>
    ELSE <<>>

\* Act 4, _check_unsealed_abstract
_check_unsealed_abstract(method, type_obj, asm) ==
    IF method.IsAbstract /\ ~type_obj.IsAbstract /\ ~type_obj.IsInterface
    THEN <<StoryViolation(type_obj.Name, method.Name, MsgUnsealedAbstract,
                          INCOMPLETE_IMPLEMENTATION, asm.path, 0)>>
    ELSE <<>>

\* Act 5, _check_debug_only
_check_debug_only(method, type_obj, asm) ==
    IF StartsWith(method.Name, <<"D","e","b","u","g">>) \/ StartsWith(method.Name, <<"T","e","s","t">>)
       \/ Contains(method.Name, <<"T","e","m","p">>)
    THEN IF method.attrsErr THEN <<>>
         ELSE IF ~\E attr \in method.attrs : Contains(attr, <<"O","b","s","o","l","e","t","e">>)
         THEN <<StoryViolation(type_obj.Name, method.Name, MsgDebugOnly,
                               DEBUGGING_CODE, asm.path, 0)>>
         ELSE <<>>
    ELSE <<>>

\* Act 7, _check_cold_methods
_check_cold_methods(method, type_obj, asm) ==
    IF method.IsAbstract \/ method.IsVirtual THEN <<>>
    ELSE IF method.body # "il" THEN <<>>
    ELSE IF Len(method.il) <= 3
    THEN <<StoryViolation(type_obj.Name, method.Name, MsgColdMethod,
                          UNUSED_CODE, asm.path, 0)>>
    ELSE <<>>

\* Act 9, _check_premature_celebrations
_check_premature_celebrations(method, type_obj, asm) ==
    IF method.attrsErr THEN <<>>
    ELSE IF \E attr \in method.attrs :
               \/ Contains(attr, <<"C","o","m","p","l","e","t","e">>)
               \/ Contains(attr, <<"F","i","n","i","s","h","e","d">>)
               \/ Contains(attr, <<"D","o","n","e">>)
    THEN IF method.body = "il" /\ contains_throw_not_implemented(method.il)
         THEN <<StoryViolation(type_obj.Name, method.Name, MsgPrematureCelebration,
                               PREMATURE_CELEBRATION, asm.path, 0)>>
         ELSE <<>>
    ELSE <<>>

\* Act 10, _check_suspiciously_simple: for a body of at most five bytes the
\* condition looks up ILAnalyzer.is_constant_return first; the AttributeError
\* of a name that ILAnalyzer does not define ends the check
_check_suspiciously_simple(method, type_obj, asm) ==
    IF method.body # "il" THEN <<>>
    ELSE IF Len(method.il) <= 5
    THEN IF "is_constant_return" \notin ILAnalyzerMethods THEN <<>>
         ELSE IF method.ReturnType = "raises" THEN <<>>
         ELSE IF is_only_default_return(method, method.il)
         THEN <<StoryViolation(type_obj.Name, method.Name, MsgSuspiciouslySimple,
                               INCOMPLETE_IMPLEMENTATION, asm.path, 0)>>
         ELSE <<>>
    ELSE <<>>

\* Act 11, _check_dead_code.  Each loop asks ILAnalyzer for a method that the
\* class does not define; the AttributeError of the first such lookup ends
\* the whole check (except Exception: pass).  `raised` tells whether a loop
\* ended that way and `out` what it had appended.
DeadFields(type_obj, asm) ==
    IF type_obj.fields = <<>> THEN [raised |-> FALSE, out |-> <<>>]
    ELSE IF "is_field_read" \notin ILAnalyzerMethods THEN [raised |-> TRUE, out |-> <<>>]
    ELSE LET dead == SelectSeq(type_obj.fields, LAMBDA f : ~f.referenced)
         IN  [raised |-> FALSE,
              out |-> [i \in DOMAIN dead |->
                          StoryViolation(type_obj.Name, dead[i].Name, MsgDeadField,
                                         UNUSED_CODE, asm.path, 0)]]

\* the loop over GetMethods(flags) with Instance only: an abstract method is
\* passed over before ILAnalyzer is asked
DeadMethods(type_obj, asm) ==
    IF type_obj.methodsErr THEN [raised |-> TRUE, out |-> <<>>]
    ELSE LET concrete == SelectSeq(type_obj.methods, LAMBDA m : ~m.IsStatic /\ ~m.IsAbstract)
         IN  IF concrete = <<>> THEN [raised |-> FALSE, out |-> <<>>]
             ELSE IF "is_method_invoked" \notin ILAnalyzerMethods
             THEN [raised |-> TRUE, out |-> <<>>]
             ELSE LET dead == SelectSeq(concrete, LAMBDA m : ~m.referenced)
                  IN  [raised |-> FALSE,
                       out |-> [i \in DOMAIN dead |->
                                   StoryViolation(type_obj.Name, dead[i].Name, MsgDeadMethod,
                                                  UNUSED_CODE, asm.path, 0)]]

DeadProperties(type_obj, asm) ==
    IF type_obj.propertiesErr THEN [raised |-> TRUE, out |-> <<>>]
    ELSE LET props == SelectSeq(type_obj.properties, LAMBDA q : ~q.IsStatic)
         IN  IF props = <<>> THEN [raised |-> FALSE, out |-> <<>>]
             ELSE IF "is_property_accessed" \notin ILAnalyzerMethods
             THEN [raised |-> TRUE, out |-> <<>>]
             ELSE LET dead == SelectSeq(props, LAMBDA q : ~q.referenced)
                  IN  [raised |-> FALSE,
                       out |-> [i \in DOMAIN dead |->
                                   StoryViolation(type_obj.Name, dead[i].Name, MsgDeadProperty,
                                                  UNUSED_CODE, asm.path, 0)]]

_check_dead_code(type_obj, asm) ==
    LET f == DeadFields(type_obj, asm)
        m == DeadMethods(type_obj, asm)
        q == DeadProperties(type_obj, asm)
    IN  IF f.raised THEN f.out
        ELSE IF m.raised THEN f.out \o m.out
        ELSE f.out \o m.out \o q.out

\* Act 3, _check_incomplete_classes: GetMethods(flags) with Instance only
_check_incomplete_classes(type_obj, asm) ==
    IF type_obj.IsInterface \/ type_obj.IsAbstract THEN <<>>
    ELSE IF type_obj.methodsErr THEN <<>>
    ELSE LET abstract_methods ==
                 SelectSeq(type_obj.methods, LAMBDA m : ~m.IsStatic /\ m.IsAbstract)
         IN  IF abstract_methods # <<>>
             THEN <<StoryViolation(type_obj.Name, type_obj.Name,
                        MsgAbstractMethods(Join([i \in DOMAIN abstract_methods |->
                                                    abstract_methods[i].Name])),
                        INCOMPLETE_IMPLEMENTATION, asm.path, 0)>>
             ELSE <<>>

\* Act 8, _check_hollow_enums
_check_hollow_enums(type_obj, asm) ==
    IF type_obj.enumErr THEN <<>>
    ELSE IF Len(type_obj.enumNames) <= 1
    THEN <<StoryViolation(type_obj.Name, type_obj.Name, MsgHollowEnumValues,
                          UNUSED_CODE, asm.path, 0)>>
    ELSE LET placeholder_names ==
                 SelectSeq(type_obj.enumNames,
                           LAMBDA n : \/ Contains(n, <<"P","l","a","c","e","h","o","l","d","e","r">>)
                                      \/ Contains(n, <<"T","O","D","O">>)
                                      \/ Contains(n, <<"T","e","m","p">>))
         IN  IF placeholder_names # <<>>
             THEN <<StoryViolation(type_obj.Name, type_obj.Name,
                                   MsgHollowEnumNames(Join(placeholder_names)),
                                   UNUSED_CODE, asm.path, 0)>>
             ELSE <<>>

\* Act 6, _check_phantom_props
_check_phantom_props(prop, type_obj, asm) ==
    IF Contains(prop.Name, <<"U","n","u","s","e","d">>) \/ Contains(prop.Name, <<"T","e","m","p">>)
       \/ Contains(prop.Name, <<"P","l","a","c","e","h","o","l","d","e","r">>)
    THEN <<StoryViolation(type_obj.Name, prop.Name, MsgPhantomProp,
                          UNUSED_CODE, asm.path, 0)>>
    ELSE <<>>

(* ------------------------ StoryTestValidator -------------------------- *)
\* _validate_method: what one method of GetMethods(flags) appends
_validate_method(type_obj, method, asm) ==
    IF ~ReachesRules(type_obj, method) THEN <<>>
    ELSE _check_todo_and_placeholders(method, type_obj, asm)
         \o _check_unsealed_abstract(method, type_obj, asm)
         \o _check_debug_only(method, type_obj, asm)
         \o _check_cold_methods(method, type_obj, asm)
         \o _check_premature_celebrations(method, type_obj, asm)
         \o _check_suspiciously_simple(method, type_obj, asm)
         \o _check_dead_code(type_obj, asm)

\* _validate_property
_validate_property(type_obj, prop, asm) ==
    IF _has_story_ignore_attribute(prop) THEN <<>>
    ELSE _check_phantom_props(prop, type_obj, asm)

\* lines 263-268: the loop over the methods
RECURSIVE ValidateMethods(_, _, _)
ValidateMethods(methods, type_obj, asm) ==
    IF methods = <<>> THEN <<>>
    ELSE _validate_method(type_obj, Head(methods), asm)
         \o ValidateMethods(Tail(methods), type_obj, asm)

\* lines 271-276: the loop over the properties
RECURSIVE ValidateProperties(_, _, _)
ValidateProperties(props, type_obj, asm) ==
    IF props = <<>> THEN <<>>
    ELSE _validate_property(type_obj, Head(props), asm)
         \o ValidateProperties(Tail(props), type_obj, asm)

\* does _validate_type leave by an exception?  The marker test of line 244
\* is guarded; the plain reads that follow it are not.
TypeRaises(type_obj) == ~_has_story_ignore_attribute(type_obj) /\ type_obj.readErr # "none"

\* _validate_type of the script, for a type whose plain attributes can be read
Script_validate_type(type_obj, asm) ==
    IF _has_story_ignore_attribute(type_obj) THEN <<>>
    ELSE _check_incomplete_classes(type_obj, asm)
         \o (IF type_obj.IsEnum THEN _check_hollow_enums(type_obj, asm) ELSE <<>>)
         \o (IF type_obj.methodsErr THEN <<>>
             ELSE ValidateMethods(type_obj.methods, type_obj, asm))
         \o (IF type_obj.propertiesErr THEN <<>>
             ELSE ValidateProperties(type_obj.properties, type_obj, asm))

\* lines 190-199: the loop over the types.  An exception of _validate_type
\* whose message names UnityEngine or CoreModule skips the type; any other is
\* raised again and ends the loop.
RECURSIVE ValidateTypes(_, _)
ValidateTypes(types, asm) ==
    IF types = <<>> THEN <<>>
    ELSE IF TypeRaises(Head(types))
    THEN IF Head(types).readErr = "unity" THEN ValidateTypes(Tail(types), asm)
         ELSE <<>>
    ELSE Script_validate_type(Head(types), asm) \o ValidateTypes(Tail(types), asm)

\* validate_assembly of the script: self.violations after the call, which is
\* also the list the call returns.  The list is emptied first; a failing
\* GetTypes() falls back to GetExportedTypes().
Script_validate_assembly(asm) ==
    IF ~asm.exists THEN <<>>
    ELSE IF asm.loadErr THEN <<>>
    ELSE IF asm.typesErr /\ asm.exportedErr THEN <<>>
    ELSE ValidateTypes(asm.types, asm)

\* can the script analyse the assembly at all?
Analysable(asm) == asm.exists /\ ~asm.loadErr /\ ~(asm.typesErr /\ asm.exportedErr)

\* the types of the assembly that _validate_type works through to its end
ValidatedTypes(asm) ==
    IF ~Analysable(asm) THEN {}
    ELSE {t \in DOMAIN asm.types :
            /\ ~_has_story_ignore_attribute(asm.types[t])
            /\ asm.types[t].readErr = "none"
            /\ \A j \in 1..(t - 1) :
                  ~(TypeRaises(asm.types[j]) /\ asm.types[j].readErr # "unity")}

\* the rules _validate_method applies to the method it is given
MemberRules ==
    {"todo_and_placeholders", "unsealed_abstract", "debug_only", "cold_methods",
     "premature_celebrations", "suspiciously_simple"}

\* the methods (by position in GetMethods) of which one _check_dead_code call
\* reads IsAbstract: none when the loop over the fields has raised, else
\* every instance method up to the first one that is not abstract
DeadCodeReads(type_obj, asm) ==
    IF DeadFields(type_obj, asm).raised \/ type_obj.methodsErr THEN {}
    ELSE {i \in DOMAIN type_obj.methods :
            /\ ~type_obj.methods[i].IsStatic
            /\ \/ "is_method_invoked" \in ILAnalyzerMethods
               \/ \A j \in 1..(i - 1) :
                     type_obj.methods[j].IsStatic \/ type_obj.methods[j].IsAbstract}

\* the members that the rules read while type t of unit u is validated:
\* which rule, and which method or property of the type
ExaminedInType(type_obj, asm, u, t) ==
    LET reached == IF type_obj.methodsErr THEN {}
                   ELSE {i \in DOMAIN type_obj.methods :
                            ReachesRules(type_obj, type_obj.methods[i])}
        Read(rule, kind, i) ==
            [rule |-> rule, unit |-> u, type |-> t, kind |-> kind, index |-> i]
    IN  {Read(r, "method", i) : r \in MemberRules, i \in reached}
        \cup {Read("dead_code", "method", i) :
                i \in IF reached = {} THEN {} ELSE DeadCodeReads(type_obj, asm)}
        \cup {Read("incomplete_classes", "method", i) :
                i \in IF type_obj.IsInterface \/ type_obj.IsAbstract \/ type_obj.methodsErr
                      THEN {}
                      ELSE {k \in DOMAIN type_obj.methods : ~type_obj.methods[k].IsStatic}}
        \cup {Read("phantom_props", "property", i) :
                i \in IF type_obj.propertiesErr THEN {}
                      ELSE {k \in DOMAIN type_obj.properties :
                               ~_has_story_ignore_attribute(type_obj.properties[k])}}

\* the members the rules read during validate_assembly of unit u
Script_examined(asm, u) ==
    UNION {ExaminedInType(asm.types[t], asm, u, t) : t \in ValidatedTypes(asm)}

\* validator.validate_assembly(path) of the script, for the path of unit u
ScriptValidateAssembly(u) ==
    /\ Len(scrCalls) < MaxCalls
    /\ scrViolations' = Script_validate_assembly(scrDisk[u])
    /\ scrCalls' = Append(scrCalls, [unit |-> u, returned |-> scrViolations'])
    /\ examined' = Script_examined(scrDisk[u], u)
    /\ UNCHANGED <<scrDisk, pyVars, valVars, cliVars, itVars>>

(* ------------------------- the analysed inputs ------------------------ *)
\* most fragments a generated member name is made of
MaxFrags == 2
\* most methods (and most properties) of a generated type
MaxMethods == 2

\* the substrings the classifier looks for, a near miss and a plain word
NameFragments ==
    {<<"<">>, <<">">>, <<"$">>, <<"b","_","_">>, <<"k","_","_","B","a","c","k","i","n","g","F","i","e","l","d">>, <<".">>, <<"I","E","n","u","m","e","r","a","t","o","r">>,
     <<"I","A","s","y","n","c","S","t","a","t","e","M","a","c","h","i","n","e">>, <<"d","_","_">>, <<"b","_">>, <<"R","u","n">>}

RECURSIVE Flatten(_)
Flatten(parts) == IF parts = <<>> THEN <<>> ELSE Head(parts) \o Flatten(Tail(parts))

M_IEnumeratorReset == <<"S","y","s","t","e","m",".","C","o","l","l","e","c","t","i","o","n","s",".","I","E","n","u","m","e","r","a","t","o","r",".","R","e","s","e","t">>
M_MyMethod == <<"M","y","M","e","t","h","o","d">>
M_DebugDraw == <<"D","e","b","u","g","D","r","a","w">>
M_TestRun == <<"T","e","s","t","R","u","n">>
M_GetTemperature == <<"G","e","t","T","e","m","p","e","r","a","t","u","r","e">>
T_StateMachine == <<"<","R","u","n",">","d","_","_","1">>
T_Iter == <<"W","a","l","k","_","d","_","_","2">>

\* member names: every concatenation of fragments, and the two named examples
MemberNames ==
    {Flatten(parts) : parts \in SeqsOf(NameFragments, 1, MaxFrags)}
    \cup {M_IEnumeratorReset, M_MyMethod}

\* newobj <token>; throw
ThrowNotImplemented == <<OP_NEWOBJ, OP_NOP, OP_NOP, OP_NOP, OP_NOP, OP_THROW>>

\* method bodies of the script's inputs: an instruction tail, alone, behind
\* newobj/throw, behind a newobj/throw with the throw one byte early, or
\* behind seven nops
ScriptILBodies ==
    {pre \o tail :
        pre \in {<<>>, ThrowNotImplemented,
                 <<OP_NEWOBJ, OP_NOP, OP_NOP, OP_NOP, OP_THROW>>, Nops(7)},
        tail \in SeqsOf({OP_NOP, OP_LDNULL, OP_LDC_I4_M1, OP_LDC_I4_0, OP_LDC_I4_1, OP_RET},
                        0, MaxIL)}

\* bodies with newobj/throw at every offset up to the last one that fits,
\* bodies too short to hold it, and bodies with the two opcodes misplaced
ThrowOffsetBodies ==
    {Nops(k) \o ThrowNotImplemented \o Nops(j) : k \in 0..MaxIL, j \in 0..1}
    \cup {SubSeq(ThrowNotImplemented, 1, n) : n \in 0..5}
    \cup {Nops(k) \o <<OP_THROW, OP_NOP, OP_NOP, OP_NOP, OP_NOP, OP_NEWOBJ>> : k \in 0..1}
    \cup {<<OP_NEWOBJ, OP_NOP, OP_NOP, OP_NOP, OP_NOP, OP_NOP, OP_THROW>>}

\* one method that varies in its body, its return type and its flags
BodyMethods(typeName) ==
    {[Method(M_Run, typeName, il) EXCEPT !.ReturnType = r, !.IsVirtual = v, !.attrs = a] :
        il \in ScriptILBodies, r \in {"System.Void", "System.Int32", "raises"},
        v \in BOOLEAN, a \in {{}, {AT_Complete}}}
    \cup {[Method(M_Run, typeName, <<>>) EXCEPT !.body = b, !.ReturnType = r] :
             b \in {"none", "raises"}, r \in {"System.Void", "System.Int32"}}
    \cup {Method(M_Run, typeName, il) : il \in ThrowOffsetBodies}

\* one method that varies in its name
NamedMethods(typeName) ==
    {[Method(n, typeName, <<OP_LDC_I4_0, OP_RET>>) EXCEPT !.ReturnType = "System.Int32"] :
        n \in MemberNames}

\* one method that varies in what the classifier and the attribute rules read
ClassifiedMethods(typeName) ==
    {[Method(n, d, il) EXCEPT !.IsSpecialName = s, !.declaringErr = e, !.attrs = a,
                              !.attrsErr = ae, !.IsStatic = st] :
        n \in {M_Run, M_DebugDraw, M_TestRun, M_GetTemperature},
        d \in {typeName, T_Base}, il \in {<<OP_RET>>, ThrowNotImplemented \o <<OP_RET>>},
        s \in BOOLEAN, e \in BOOLEAN,
        a \in {{}, {AT_StoryIgnore}, {AT_Obsolete}, {AT_Complete}, {AT_Serializable}},
        ae \in BOOLEAN, st \in BOOLEAN}

\* the methods of types with several methods
EmptyMethod(name, typeName) == Method(name, typeName, <<OP_RET>>)

AbstractMethod(name, typeName) ==
    [Method(name, typeName, <<>>) EXCEPT !.IsAbstract = TRUE, !.IsVirtual = TRUE,
                                         !.body = "none"]

SiblingMethods(typeName) ==
    { EmptyMethod(M_Run, typeName),
      EmptyMethod(M_MyMethod, typeName),
      [EmptyMethod(M_DebugDraw, typeName) EXCEPT !.body = "raises"],
      [EmptyMethod(M_TestRun, typeName) EXCEPT !.attrsErr = TRUE],
      AbstractMethod(M_Run, typeName),
      [AbstractMethod(M_MyMethod, typeName) EXCEPT !.attrs = {AT_StoryIgnore}],
      AbstractMethod(M_DebugDraw, T_Base) }

\* types with one method
OneMethodTypes ==
    {Type(T_Widget, <<m>>) :
        m \in BodyMethods(T_Widget) \cup ClassifiedMethods(T_Widget)}
    \cup UNION {{Type(n, <<m>>) : m \in NamedMethods(n)} :
                   n \in {T_Widget, T_DisplayClass, T_StateMachine, T_Iter}}

\* types with several methods, and with fields
SeveralMethodTypes ==
    {[Type(T_Widget, ms) EXCEPT !.IsInterface = i, !.IsAbstract = a, !.methodsErr = e,
                                !.fields = fs] :
        ms \in SeqsOf(SiblingMethods(T_Widget), 0, MaxMethods),
        i \in BOOLEAN, a \in BOOLEAN, e \in BOOLEAN,
        fs \in {<<>>, <<Field(<<"c","o","u","n","t">>, FALSE)>>, <<Field(<<"c","o","u","n","t">>, TRUE)>>}}

\* enum types
E_Red == <<"R","e","d">>
E_Green == <<"G","r","e","e","n">>
E_Placeholder == <<"P","l","a","c","e","h","o","l","d","e","r","1">>
E_TODO == <<"T","O","D","O","_","L","a","t","e","r">>

EnumTypes ==
    {[Type(T_Color, <<>>) EXCEPT !.IsEnum = TRUE, !.enumNames = ns, !.enumErr = e,
                                 !.attrs = a] :
        ns \in SeqsOf({E_Red, E_Green, E_Placeholder, E_TODO}, 0, MaxMethods),
        e \in BOOLEAN, a \in {{}, {AT_StoryIgnore}}}

\* types with properties
PropertyTypes ==
    {[Type(T_Widget, <<EmptyMethod(M_Run, T_Widget)>>) EXCEPT !.properties = ps,
                                                              !.propertiesErr = e] :
        ps \in SeqsOf({ Property(<<"S","i","z","e">>, TRUE),
                        Property(<<"S","i","z","e">>, FALSE),
                        Property(<<"U","n","u","s","e","d","S","i","z","e">>, TRUE),
                        [Property(<<"T","e","m","p","S","i","z","e">>, FALSE) EXCEPT !.attrs = {AT_StoryIgnore}],
                        [Property(<<"P","l","a","c","e","h","o","l","d","e","r","S","i","z","e">>, TRUE) EXCEPT !.IsStatic = TRUE] },
                      0, MaxMethods),
        e \in BOOLEAN}

\* small types, for assemblies with several types
SmallTypes ==
    { Type(T_Widget, <<EmptyMethod(M_Run, T_Widget)>>),
      Type(T_Base, <<>>),
      [Type(T_Color, <<>>) EXCEPT !.IsEnum = TRUE],
      [Type(T_Widget, <<EmptyMethod(M_Run, T_Widget)>>) EXCEPT !.attrs = {AT_StoryIgnore}],
      [Type(T_Widget, <<EmptyMethod(M_Run, T_Widget)>>) EXCEPT !.readErr = "unity"],
      [Type(T_Widget, <<EmptyMethod(M_Run, T_Widget)>>) EXCEPT !.readErr = "other"],
      [Type(T_Widget, <<EmptyMethod(M_Run, T_Widget)>>) EXCEPT !.methodsErr = TRUE] }

\* a type whose first method raises when it is classified or matched,
\* followed by a sibling method and by a later type
MemberErrorAssemblies ==
    {Assembly(<<Type(T_Widget, <<m, EmptyMethod(M_MyMethod, T_Widget)>>),
                Type(T_Base, <<EmptyMethod(M_Run, T_Base)>>)>>) :
        m \in { [EmptyMethod(M_DebugDraw, T_Widget) EXCEPT !.body = "raises"],
                [EmptyMethod(M_TestRun, T_Widget) EXCEPT !.attrsErr = TRUE],
                [EmptyMethod(M_Run, T_Base) EXCEPT !.declaringErr = TRUE],
                [EmptyMethod(M_Run, T_Widget) EXCEPT !.declaringErr = TRUE] }}

\* assemblies with one type, with several types, and their ways of failing
ScriptRichAssemblies ==
    {Assembly(<<t>>) :
        t \in OneMethodTypes \cup SeveralMethodTypes \cup EnumTypes \cup PropertyTypes}
    \cup {Assembly(ts) : ts \in SeqsOf(SmallTypes, 0, 2)}
    \cup MemberErrorAssemblies

ScriptSmallAssemblies ==
    {[Assembly(<<t>>) EXCEPT !.exists = x, !.loadErr = l, !.typesErr = te,
                             !.exportedErr = ee] :
        t \in {Type(T_Widget, <<EmptyMethod(M_Run, T_Widget)>>), Type(T_Base, <<>>)},
        x \in BOOLEAN, l \in BOOLEAN, te \in BOOLEAN, ee \in BOOLEAN}

\* StoryTestValidator.__init__ of the script
ScriptInit ==
    /\ scrDisk \in {Placed(as) : as \in SeqsOf(ScriptRichAssemblies, 1, 1)
                                        \cup SeqsOf(ScriptSmallAssemblies, 1, MaxDisk)}
    /\ scrViolations = <<>>
    /\ scrCalls = <<>>
    /\ examined = {}

(* ====================================================================== *)
(*        THE FILES OF A DIRECTORY (storytest/python_validator.py)         *)
(* ====================================================================== *)
\* A path is the sequence of its parts, a part is a sequence of characters;
\* an absolute path starts with the part "/".

\* most entries below the root
MaxEntries == 2

\* lines 36-47
_DEFAULT_EXCLUDES ==
    { <<".","g","i","t">>, <<"_","_","p","y","c","a","c","h","e","_","_">>, <<"v","e","n","v">>, <<".","v","e","n","v">>, <<"e","n","v">>, <<"E","N","V">>,
      <<"d","i","s","t">>, <<"b","u","i","l","d">>, <<".","e","g","g","s">>, <<"s","i","t","e","-","p","a","c","k","a","g","e","s">> }

\* line 58: the pattern used when includes is None or empty
DefaultInclude == <<"*","*","/","*",".","p","y">>

\* line 64: Path.suffix, the last dot of the name and what follows it, empty
\* when the name has no dot or only a leading or a trailing one
Suffix(name) ==
    LET dots == {i \in DOMAIN name : name[i] = "."} IN
    IF dots = {} THEN <<>>
    ELSE LET last == CHOOSE i \in dots : \A j \in dots : j <= i IN
         IF last = 1 \/ last = Len(name) THEN <<>>
         ELSE SubSeq(name, last, Len(name))

\* line 63: whether root.glob(pattern) produces the path root/rel, for the
\* patterns "*<tail>" (children of the root only) and "**/*<tail>" (any depth)
GlobMatches(rel, pattern) ==
    LET recursive == StartsWith(pattern, <<"*","*","/">>)
        last == IF recursive THEN SubSeq(pattern, 4, Len(pattern)) ELSE pattern
    IN /\ recursive \/ Len(rel) = 1
       /\ last # <<>> /\ last[1] = "*"
       /\ EndsWith(rel[Len(rel)], Tail(last))

\* line 63: root.glob(pattern), the matching entries in the order of the walk
Glob(tree, pattern) == SelectSeq(tree, LAMBDA e : GlobMatches(e.rel, pattern))

\* line 57: root.resolve(), a relative path is taken from the working directory
Resolve(cwd, path) ==
    IF path # <<>> /\ path[1] = <<"/">> THEN path ELSE cwd \o path

\* line 67: any(part in exc for part in p.parts)
AnyPartExcluded(p, exc) == \E k \in DOMAIN p : p[k] \in exc

\* what may lie below the root: files and directories, by relative path
EntryPool ==
    { [rel |-> << <<"a",".","p","y">> >>, is_file |-> TRUE],
      [rel |-> << <<"s","r","c">>, <<"a",".","p","y">> >>, is_file |-> TRUE],
      [rel |-> << <<"v","e","n","v">>, <<"a",".","p","y">> >>, is_file |-> TRUE],
      [rel |-> << <<"t","e","s","t","s">>, <<"a",".","p","y">> >>, is_file |-> TRUE],
      [rel |-> << <<"s","r","c">>, <<"n","o","t","e","s",".","t","x","t">> >>, is_file |-> TRUE],
      [rel |-> << <<"p","k","g",".","p","y">> >>, is_file |-> FALSE] }

\* the trees: up to MaxEntries distinct entries, in any order
Trees_fs ==
    UNION { {t \in [1..n -> EntryPool] : \A i, j \in 1..n : i # j => t[i] # t[j]}
            : n \in 0..MaxEntries }

\* the working directory and the root argument of the call
ItRootInputs ==
    { [cwd |-> << <<"/">>, <<"h","o","m","e">>, <<"u">> >>,           root |-> << <<"p","r","o","j">> >>],
      [cwd |-> << <<"/">>, <<"h","o","m","e">>, <<"b","u","i","l","d">> >>,       root |-> << <<"p","r","o","j">> >>],
      [cwd |-> << <<"/">> >>,                          root |-> << <<"/">>, <<"s","r","v">>, <<"v","e","n","v">> >>],
      [cwd |-> << <<"/">>, <<"h","o","m","e">>, <<"u">>, <<"p","r","o","j">> >>,  root |-> <<>>] }

\* the includes argument; the empty sequence stands for None as well
ItIncludeInputs ==
    { <<>>, << <<"*",".","p","y">> >>, << <<"*","*","/","*",".","p","y">>, <<"*",".","p","y">> >>, << <<"*","*","/","*">> >> }

\* the excludes argument; the empty set stands for None as well
ItExcludeInputs == { {}, { <<"t","e","s","t","s">> }, { <<"a",".","p","y">> } }

\* before the call
ItInit ==
    /\ itArgs \in { [cwd |-> r.cwd, root |-> r.root, includes |-> i, excludes |-> x]
                    : r \in ItRootInputs, i \in ItIncludeInputs, x \in ItExcludeInputs }
    /\ fsTree \in Trees_fs
    /\ itPc = "start"
    /\ itRoot = <<>>
    /\ itInc = <<>>
    /\ itExc = {}
    /\ itPat = 0
    /\ itCand = 0
    /\ itSeen = {}
    /\ itYielded = <<>>

\* lines 57-61: resolve the root, default the patterns, build the exclude set
ItEnter ==
    /\ itPc = "start"
    /\ itRoot' = Resolve(itArgs.cwd, itArgs.root)
    /\ itInc' = IF itArgs.includes # <<>> THEN itArgs.includes ELSE <<DefaultInclude>>
    /\ itExc' = itArgs.excludes \cup _DEFAULT_EXCLUDES
    /\ itSeen' = {}
    /\ itPc' = "patterns"
    /\ UNCHANGED <<itArgs, fsTree, itPat, itCand, itYielded, pyVars, valVars, cliVars, scrVars>>

\* line 62: the outer loop takes the next pattern
ItNextPattern ==
    /\ itPc = "patterns"
    /\ itPat < Len(itInc)
    /\ itPat' = itPat + 1
    /\ itCand' = 0
    /\ itPc' = "glob"
    /\ UNCHANGED <<itArgs, fsTree, itRoot, itInc, itExc, itSeen, itYielded, pyVars, valVars, cliVars, scrVars>>

\* lines 63-71: the inner loop takes the next path of the glob
ItNextPath ==
    /\ itPc = "glob"
    /\ LET found == Glob(fsTree, itInc[itPat]) IN
       /\ itCand < Len(found)
       /\ itCand' = itCand + 1
       /\ LET e == found[itCand + 1]
              p == itRoot \o e.rel
          IN IF ~e.is_file \/ Suffix(p[Len(p)]) # <<".","p","y">>
             THEN UNCHANGED <<itSeen, itYielded>>
             ELSE IF AnyPartExcluded(p, itExc)
             THEN UNCHANGED <<itSeen, itYielded>>
             ELSE IF p \notin itSeen
             THEN /\ itSeen' = itSeen \cup {p}
                  /\ itYielded' = Append(itYielded, p)
             ELSE UNCHANGED <<itSeen, itYielded>>
    /\ UNCHANGED <<itArgs, fsTree, itPc, itRoot, itInc, itExc, itPat, pyVars, valVars, cliVars, scrVars>>

\* line 63: the glob is exhausted
ItGlobEnd ==
    /\ itPc = "glob"
    /\ itCand = Len(Glob(fsTree, itInc[itPat]))
    /\ itPc' = "patterns"
    /\ UNCHANGED <<itArgs, fsTree, itRoot, itInc, itExc, itPat, itCand, itSeen, itYielded, pyVars, valVars, cliVars, scrVars>>

\* line 62: the patterns are exhausted, the generator ends
ItReturn ==
    /\ itPc = "patterns"
    /\ itPat = Len(itInc)
    /\ itPc' = "done"
    /\ UNCHANGED <<itArgs, fsTree, itRoot, itInc, itExc, itPat, itCand, itSeen, itYielded, pyVars, valVars, cliVars, scrVars>>

(* --------------------------- specifications --------------------------- *)
\* no validate_python_path call in progress
PyIdle ==
    /\ pyFiles = <<>>
    /\ pyIdx = 0
    /\ pyPc = "idle"
    /\ pyTodo = <<>>
    /\ pyViolations = <<>>

\* no validator instance
ValIdle ==
    /\ disk = <<>>
    /\ violations = <<>>
    /\ calls = <<>>

\* no run_validation in progress
CliIdle ==
    /\ args = [kind |-> "invalid", fail_on_violations |-> FALSE, output |-> FALSE]
    /\ cliPc = "idle"
    /\ cliIdx = 0
    /\ all_violations = <<>>
    /\ report = NoReport
    /\ emitted = NoReport
    /\ exitCode = -1

\* no validator instance of the script
ScrIdle ==
    /\ scrDisk = <<>>
    /\ scrViolations = <<>>
    /\ scrCalls = <<>>
    /\ examined = {}

\* no _iter_python_files call
ItIdle ==
    /\ itArgs = [cwd |-> <<>>, root |-> <<>>, includes |-> <<>>, excludes |-> {}]
    /\ fsTree = <<>>
    /\ itPc = "idle"
    /\ itRoot = <<>>
    /\ itInc = <<>>
    /\ itExc = {}
    /\ itPat = 0
    /\ itCand = 0
    /\ itSeen = {}
    /\ itYielded = <<>>

\* one validate_python_path call
InitPy == PyInit /\ ValIdle /\ CliIdle /\ ScrIdle /\ ItIdle

NextPy == PyNextFile \/ PyParse \/ PyVisit \/ PyEndWalk \/ PyReturn

SpecPy == InitPy /\ [][NextPy]_vars

\* one StoryTestValidator instance, called directly
InitVal == PyIdle /\ ValInit /\ CliIdle /\ ScrIdle /\ ItIdle

NextVal == \E u \in DOMAIN disk : ValidateAssembly(u)

SpecVal == InitVal /\ [][NextVal]_vars

\* one run of the command-line driver
InitCli == PyIdle /\ CliInit /\ ScrIdle /\ ItIdle

NextCli ==
    \/ CliSingleDll
    \/ CliDirectory
    \/ CliInvalidPath
    \/ CliValidateNext
    \/ CliGenerateReport
    \/ CliOutput
    \/ CliExit

SpecCli == InitCli /\ [][NextCli]_vars

\* one StoryTestValidator instance of the script, called directly
InitScript == PyIdle /\ ValIdle /\ CliIdle /\ ScriptInit /\ ItIdle

NextScript == \E u \in DOMAIN scrDisk : ScriptValidateAssembly(u)

SpecScript == InitScript /\ [][NextScript]_vars

\* the three validate_assembly implementations, each on an instance of its own
InitBinary == InitVal \/ InitScript

NextBinary == NextVal \/ NextScript

SpecBinary == InitBinary /\ [][NextBinary]_vars

\* one validate_python_path call on a directory: the files it goes through
InitIter == PyIdle /\ ValIdle /\ CliIdle /\ ScrIdle /\ ItInit

NextIter == ItEnter \/ ItNextPattern \/ ItNextPath \/ ItGlobEnd \/ ItReturn

SpecIter == InitIter /\ [][NextIter]_vars

(* ====================================================================== *)
(*            PROPERTIES OF THE BINARY FRONTEND AND THE DRIVER             *)
(* ====================================================================== *)

\* how often x occurs in sequence s
Occurrences(s, x) == Cardinality({i \in DOMAIN s : s[i] = x})

\* the same entries with the same multiplicities
SameMultiset(a, b) ==
    \A x \in {a[i] : i \in DOMAIN a} \cup {b[i] : i \in DOMAIN b} :
        Occurrences(a, x) = Occurrences(b, x)

\* what a fresh validator finds in one assembly
FoundIn(asm) == validate_assembly(<<>>, asm)

\* C5: analysing an unchanged input twice gives the same multiset of
\* violations: two validate_assembly calls on the same path, on the same
\* validator instance, return the same entries with the same multiplicities.
C5_Idempotent ==
    \A k \in DOMAIN calls : \A l \in DOMAIN calls :
        calls[k].unit = calls[l].unit => SameMultiset(calls[k].returned, calls[l].returned)

\* has run_validation built its report?
ReportGenerated == report.totalViolations >= 0

RECURSIVE SumFound(_)
SumFound(as) == IF as = <<>> THEN 0 ELSE Len(FoundIn(Head(as))) + SumFound(Tail(as))

\* C6: in the final report every violation discovered in any unit appears
\* exactly once: totalViolations is the sum over the units of the number of
\* violations discovered in that unit, a skipped unit adding nothing.
C6_EachViolationOnce ==
    ReportGenerated =>
        /\ report.totalViolations = SumFound(disk)
        /\ \A u \in DOMAIN disk : \A v \in {FoundIn(disk[u])[i] : i \in DOMAIN FoundIn(disk[u])} :
              Occurrences(report.violations, to_dict(v)) = Occurrences(FoundIn(disk[u]), v)

\* C7: validate_assembly(path) returns exactly the violations found in that
\* assembly, whatever the same validator instance analysed before.
C7_ReturnsOwnViolations ==
    \A k \in DOMAIN calls : calls[k].returned = FoundIn(disk[calls[k].unit])

\* the kinds listed in a report's violations
ListedOfKind(r, kind) == {i \in DOMAIN r.violations : r.violations[i].violationType = kind}

RECURSIVE SumCounts(_, _)
SumCounts(byType, kinds) ==
    IF kinds = {} THEN 0
    ELSE LET k == CHOOSE x \in kinds : TRUE
         IN  byType[k] + SumCounts(byType, kinds \ {k})

\* the report is consistent with the violations it lists
ConsistentReport(r) ==
    /\ r.totalViolations = Len(r.violations)
    /\ \A k \in DOMAIN StoryViolationType :
          LET kind == StoryViolationType[k]
          IN  /\ (kind \in DOMAIN r.violationsByType) <=> (ListedOfKind(r, kind) # {})
              /\ kind \in DOMAIN r.violationsByType =>
                    r.violationsByType[kind] = Cardinality(ListedOfKind(r, kind))
    /\ SumCounts(r.violationsByType, DOMAIN r.violationsByType) = r.totalViolations

\* C8: in every generated report, totalViolations is the length of the
\* violations list, violationsByType has an entry for a kind exactly when a
\* listed violation has that kind, each entry is the number of listed
\* violations of that kind, and the entries add up to totalViolations.
C8_ReportConsistent ==
    /\ ReportGenerated => ConsistentReport(report)
    /\ emitted.totalViolations >= 0 => ConsistentReport(emitted)

\* a written report that lists violations of two kinds
C8_Witness ==
    /\ emitted.totalViolations >= 2
    /\ ListedOfKind(emitted, "Other") # {}
    /\ ListedOfKind(emitted, "IncompleteImplementation") # {}
    /\ ListedOfKind(emitted, "UnusedCode") = {}

\* the unit a listed violation was discovered in: its file is the assembly
\* or the configuration found for the assembly
UnitOfListed(d) == d.filePath[2]

\* position of the first type / method with a name, 0 when there is none
FirstNamed(items, name) ==
    IF \E i \in DOMAIN items : items[i].Name = name
    THEN CHOOSE i \in DOMAIN items : items[i].Name = name /\ \A j \in 1..(i - 1) : items[j].Name # name
    ELSE 0

\* is the listed violation one of a declared type (not of the assembly)?
OfDeclaredType(d) == FirstNamed(disk[UnitOfListed(d)].types, d.type) > 0

\* C9: the violation list keeps discovery order: the violations of an
\* earlier unit precede those of a later unit; within a unit those of an
\* earlier declared type precede those of a later one; within a type they
\* follow member order.
C9_DiscoveryOrder ==
    ReportGenerated =>
        \A p \in DOMAIN report.violations : \A q \in DOMAIN report.violations :
            LET a == report.violations[p]
                b == report.violations[q]
                types == disk[UnitOfListed(a)].types
            IN  p < q =>
                  /\ UnitOfListed(a) <= UnitOfListed(b)
                  /\ (UnitOfListed(a) = UnitOfListed(b) /\ OfDeclaredType(a) /\ OfDeclaredType(b)) =>
                        /\ FirstNamed(types, a.type) <= FirstNamed(types, b.type)
                        /\ a.type = b.type =>
                              FirstNamed(types[FirstNamed(types, a.type)].methods, a.member)
                                 <= FirstNamed(types[FirstNamed(types, a.type)].methods, b.member)

\* the lambda / closure marker of compiler-generated method names
HasLambdaMarker(name) == Contains(name, <<"b","_","_">>)

\* the methods of the violation's assembly and type that carry its member name
NamedBy(v) ==
    {m \in UNION {UNION {{[path |-> disk[u].path, type |-> disk[u].types[t],
                              method |-> disk[u].types[t].methods[i]] :
                             i \in DOMAIN disk[u].types[t].methods} :
                         t \in DOMAIN disk[u].types} : u \in DOMAIN disk} :
        /\ m.path = v.file_path
        /\ m.type.Name = v.type_name
        /\ m.method.Name = v.member}

\* C10: a member whose name carries a lambda/closure marker, or that is
\* inherited (its declaring type is not the type under analysis), is never
\* the member of a violation of the binary validator.
C10_ExemptNeverReported ==
    \A k \in DOMAIN violations : \A m \in NamedBy(violations[k]) :
        /\ ~HasLambdaMarker(m.method.Name)
        /\ m.method.DeclaringType = m.type.Name

(* ====================================================================== *)
(*              PROPERTIES OF THE STANDALONE SCRIPT                        *)
(* ====================================================================== *)

\* a name the compiler synthesizes: it holds '<', '>' or '$', the lambda
\* marker b__, the backing-field marker, or a '.' together with the name of
\* the enumerator or state-machine interface
SynthesizedMemberName(name) ==
    \/ \E p \in DOMAIN name : name[p] \in {"<", ">", "$"}
    \/ Contains(name, <<"b","_","_">>)
    \/ Contains(name, <<"k","_","_","B","a","c","k","i","n","g","F","i","e","l","d">>)
    \/ /\ \E p \in DOMAIN name : name[p] = "."
       /\ (Contains(name, <<"I","E","n","u","m","e","r","a","t","o","r">>) \/ Contains(name, <<"I","A","s","y","n","c","S","t","a","t","e","M","a","c","h","i","n","e">>))

\* a type name the compiler synthesizes
SynthesizedTypeName(name) ==
    \/ \E p \in DOMAIN name : name[p] \in {"<", ">", "$"}
    \/ Contains(name, <<"d","_","_">>)

\* the member carries the ignore marker among its attributes
CarriesIgnoreMarker(member) ==
    ~member.attrsErr /\ \E a \in member.attrs : Contains(a, <<"S","t","o","r","y","I","g","n","o","r","e">>)

\* the member a read is about
MemberRead(e) ==
    IF e.kind = "method" THEN scrDisk[e.unit].types[e.type].methods[e.index]
    ELSE scrDisk[e.unit].types[e.type].properties[e.index]

\* the classifier exempts the member of the read
ExemptRead(e) ==
    LET type_obj == scrDisk[e.unit].types[e.type]
        member == MemberRead(e)
    IN  \/ CarriesIgnoreMarker(member)
        \/ /\ e.kind = "method"
           /\ \/ SynthesizedMemberName(member.Name)
              \/ SynthesizedTypeName(type_obj.Name)
              \/ member.IsSpecialName
              \/ member.DeclaringType # type_obj.Name

\* C11: no rule is evaluated on an exempt member: a member that is
\* compiler-synthesized (by its name or by the name of its type), special-
\* name, inherited or ignore-marked is read by no rule during the analysis
\* of its type.
C11_NoRuleOnExemptMember ==
    \A e \in examined : ~ExemptRead(e)


\* every method of every type on disk, with its place
ScriptMethods ==
    UNION {UNION {{[unit |-> u, type |-> t, index |-> i] :
                      i \in DOMAIN scrDisk[u].types[t].methods} :
                  t \in DOMAIN scrDisk[u].types} : u \in DOMAIN scrDisk}

TypeAt(x) == scrDisk[x.unit].types[x.type]
MethodAt(x) == TypeAt(x).methods[x.index]

\* C12: for a type whose name is not compiler-generated, the classifier
\* _is_compiler_generated exempts a member name exactly when the name holds
\* '<', '>' or '$', or b__, or k__BackingField, or a '.' together with
\* IEnumerator or IAsyncStateMachine, and the predicate simulated in
\* test_iterator_fix.py agrees with it on every such name;
\* System.Collections.IEnumerator.Reset is exempt and MyMethod is not.
C12_CompilerGeneratedNames ==
    \A x \in ScriptMethods :
        LET name == MethodAt(x).Name
            type_name == TypeAt(x).Name
        IN  ~SynthesizedTypeName(type_name) =>
               /\ _is_compiler_generated(name, type_name) = SynthesizedMemberName(name)
               /\ test_is_compiler_generated_member_name(name)
                     = _is_compiler_generated(name, type_name)
               /\ name = M_IEnumeratorReset => _is_compiler_generated(name, type_name)
               /\ name = M_MyMethod => ~_is_compiler_generated(name, type_name)

\* the rules of _validate_method that have read method x in the last call
RulesOn(x) ==
    {e.rule : e \in {e \in examined :
                        /\ e.kind = "method" /\ e.rule \in MemberRules
                        /\ e.unit = x.unit /\ e.type = x.type /\ e.index = x.index}}

\* a call has analysed a plain type with the explicit interface forwarder
\* System.Collections.IEnumerator.Reset, and no member rule has read it
C12_Witness ==
    /\ scrCalls # <<>>
    /\ \E x \in ScriptMethods :
          /\ MethodAt(x).Name = M_IEnumeratorReset
          /\ TypeAt(x).Name = T_Widget
          /\ x.type \in ValidatedTypes(scrDisk[x.unit])
          /\ RulesOn(x) = {}


\* the unit of the last validate_assembly call (0 before the first)
LastUnit == IF scrCalls = <<>> THEN 0 ELSE scrCalls[Len(scrCalls)].unit

\* the classifier does not exempt method x
NonExempt(x) ==
    ~ExemptRead([kind |-> "method", unit |-> x.unit, type |-> x.type, index |-> x.index])

\* the last call has analysed method x: its assembly loaded, its type was
\* worked through and listed its methods, and x is not exempt
Analysed(x) ==
    /\ x.unit = LastUnit
    /\ x.type \in ValidatedTypes(scrDisk[x.unit])
    /\ ~TypeAt(x).methodsErr
    /\ NonExempt(x)

\* the methods of the type of x that carry the name of x
Namesakes(x) ==
    {y \in ScriptMethods :
        y.unit = x.unit /\ y.type = x.type /\ MethodAt(y).Name = MethodAt(x).Name}

\* the violations of the last call with message msg that name method x
Reported(x, msg) ==
    {k \in DOMAIN scrViolations :
        /\ scrViolations[k].file_path = scrDisk[x.unit].path
        /\ scrViolations[k].type_name = TypeAt(x).Name
        /\ scrViolations[k].member = MethodAt(x).Name
        /\ scrViolations[k].violation = msg}

\* the body can be read, is at most 8 bytes long and holds one of the
\* load-constant opcodes 0x14, 0x16, 0x17 immediately followed by ret
DefaultReturnBody(m) ==
    /\ m.body = "il"
    /\ Len(m.il) <= 8
    /\ \E p \in 1..(Len(m.il) - 1) : m.il[p] \in {20, 22, 23} /\ m.il[p + 1] = 42

\* the body can be read and holds newobj (0x73) with throw (0x7A) five
\* bytes behind it
ThrowBody(m) ==
    /\ m.body = "il"
    /\ \E p \in DOMAIN m.il :
          p + 5 \in DOMAIN m.il /\ m.il[p] = 115 /\ m.il[p + 5] = 122

\* the return type can be read and is not void
NonVoid(m) == m.ReturnType \notin {"System.Void", "raises"}

C14_EmptyBodyOnce ==
    \A x \in ScriptMethods :
        LET m == MethodAt(x)
        IN  (Analysed(x) /\ ~m.IsAbstract /\ ~m.IsVirtual /\ m.body = "il" /\ Len(m.il) <= 2)
            => /\ Cardinality(Reported(x, MsgColdMethod)) =
                     Cardinality({y \in Namesakes(x) :
                                     /\ NonExempt(y)
                                     /\ ~MethodAt(y).IsAbstract /\ ~MethodAt(y).IsVirtual
                                     /\ MethodAt(y).body = "il"
                                     /\ Len(MethodAt(y).il) <= 2})
               /\ (Namesakes(x) = {x} =>
                      /\ Reported(x, MsgThrowNotImplemented) = {}
                      /\ Reported(x, MsgDefaultReturn) = {}
                      /\ Reported(x, MsgPrematureCelebration) = {}
                      /\ Reported(x, MsgSuspiciouslySimple) = {})


\* C15: a method whose body matches the Throw-NotImplemented signature has
\* exactly one Throw-NotImplemented violation and the default-only-return
\* check is not applied to it; no method has both violations.
C15_ThrowSuppressesDefault ==
    \A x \in ScriptMethods :
        Analysed(x) =>
            /\ Cardinality(Reported(x, MsgThrowNotImplemented)) =
                  Cardinality({y \in Namesakes(x) : NonExempt(y) /\ ThrowBody(MethodAt(y))})
            /\ (Namesakes(x) = {x} =>
                   ~(Reported(x, MsgThrowNotImplemented) # {}
                     /\ Reported(x, MsgDefaultReturn) # {}))

\* a non-void method whose 8-byte body is newobj, throw, ldc.i4.0, ret - both
\* signatures - has been analysed and has the Throw-NotImplemented violation
C15_Witness ==
    \E x \in ScriptMethods :
        /\ Analysed(x)
        /\ MethodAt(x).il = <<115, 0, 0, 0, 0, 122, 22, 42>>
        /\ NonVoid(MethodAt(x))
        /\ Cardinality(Reported(x, MsgThrowNotImplemented)) = 1
        /\ Reported(x, MsgDefaultReturn) = {}


\* the violations of the last call with message msg that name member `name`
\* of type t of unit u
ReportedMember(u, t, name, msg) ==
    {k \in DOMAIN scrViolations :
        /\ scrViolations[k].file_path = scrDisk[u].path
        /\ scrViolations[k].type_name = scrDisk[u].types[t].Name
        /\ scrViolations[k].member = name
        /\ scrViolations[k].violation = msg}

\* C16: for every field and every property of a type the last call has
\* analysed: when no body of the unit references it there is exactly one
\* dead-code violation for it, of kind UnusedCode; when some body references
\* it there is none.
C16_DeadCode ==
    LastUnit # 0 =>
        \A t \in ValidatedTypes(scrDisk[LastUnit]) :
            LET type_obj == scrDisk[LastUnit].types[t]
            IN  /\ \A i \in DOMAIN type_obj.fields :
                      LET dead == ReportedMember(LastUnit, t, type_obj.fields[i].Name, MsgDeadField)
                      IN  /\ Cardinality(dead) =
                                Cardinality({j \in DOMAIN type_obj.fields :
                                                /\ type_obj.fields[j].Name = type_obj.fields[i].Name
                                                /\ ~type_obj.fields[j].referenced})
                          /\ \A k \in dead : scrViolations[k].violation_type = "UnusedCode"
                /\ \A i \in DOMAIN type_obj.properties :
                      (~type_obj.propertiesErr /\ ~type_obj.properties[i].referenced)
                          => ReportedMember(LastUnit, t, type_obj.properties[i].Name,
                                            MsgDeadProperty) # {}


\* self.violations of the package validator before its i-th call
HeldBefore(i) == IF i = 1 THEN <<>> ELSE calls[i - 1].returned

\* self.violations of the script validator before its i-th call
ScriptHeldBefore(i) == IF i = 1 THEN <<>> ELSE scrCalls[i - 1].returned

\* the elements of a list
Elements(list) == {list[k] : k \in DOMAIN list}

PackageMethods ==
    UNION {UNION {{[unit |-> u, type |-> t, index |-> i] :
                      i \in DOMAIN disk[u].types[t].methods} :
                  t \in DOMAIN disk[u].types} : u \in DOMAIN disk}

PackageTypeAt(x) == disk[x.unit].types[x.type]
PackageMethodAt(x) == PackageTypeAt(x).methods[x.index]

\* the last call of the package validator, and what it appended
LastCall == calls[Len(calls)]
Appended == SubSeq(LastCall.returned, Len(HeldBefore(Len(calls))) + 1, Len(LastCall.returned))

\* the last call of the package validator has loaded the unit of x and has
\* listed the methods of its type, and x is the only method of the unit with
\* its type name and its name
PackageListed(x) ==
    /\ calls # <<>>
    /\ x.unit = LastCall.unit
    /\ ~IsSkipped(disk[x.unit])
    /\ ~StartsWith(PackageTypeAt(x).Name, <<"<">>)
    /\ ~StartsWith(PackageTypeAt(x).Name, <<"_","_">>)
    /\ ~PackageTypeAt(x).getMethodsThrows
    /\ \A y \in PackageMethods :
          (/\ y.unit = x.unit
           /\ PackageTypeAt(y).Name = PackageTypeAt(x).Name
           /\ PackageMethodAt(y).Name = PackageMethodAt(x).Name) => y = x

\* the violations a list holds for the type name and the name of a method
NamedIn(list, type_obj, method) ==
    SelectSeq(list, LAMBDA v : v.type_name = type_obj.Name /\ v.member = method.Name)

\* package validator: a method whose GetMethodBody raises yields nothing,
\* and every other listed method, of the same type or of a later one, yields
\* what the rules find in it
C20_PackageConfined ==
    \A x \in PackageMethods :
        PackageListed(x) =>
            NamedIn(Appended, PackageTypeAt(x), PackageMethodAt(x)) =
                IF SkipsMethod(PackageMethodAt(x), PackageTypeAt(x), disk[x.unit])
                   \/ PackageMethodAt(x).body = "throws"
                THEN <<>>
                ELSE MethodViolations(PackageMethodAt(x), PackageTypeAt(x), disk[x.unit])

\* the last call of the script validator has loaded the unit of x and has
\* listed the methods of its type, and x is the only method of the unit with
\* its type name and its name
ScriptListed(x) ==
    /\ x.unit = LastUnit
    /\ x.type \in ValidatedTypes(scrDisk[x.unit])
    /\ ~TypeAt(x).methodsErr
    /\ \A y \in ScriptMethods :
          (/\ y.unit = x.unit
           /\ TypeAt(y).Name = TypeAt(x).Name
           /\ MethodAt(y).Name = MethodAt(x).Name) => y = x

\* an introspection call made for method x raises: GetCustomAttributes
\* when the ignore marker is looked for, the DeclaringType comparison when
\* the name and IsSpecialName let the method through, GetMethodBody when the
\* first rule reads the body
IntrospectionRaises(x) ==
    LET method == MethodAt(x)
        type_obj == TypeAt(x)
    IN  \/ method.attrsErr
        \/ /\ ~_is_compiler_generated(method.Name, type_obj.Name)
           /\ ~method.IsSpecialName
           /\ \/ method.declaringErr
              \/ method.DeclaringType = type_obj.Name /\ method.body = "raises"

\* script validator: every listed method whose introspection does not raise
\* yields what the rules find in it, whatever its siblings and the earlier
\* types do
C20_ScriptSiblings ==
    \A x \in ScriptMethods :
        (ScriptListed(x) /\ ~IntrospectionRaises(x)) =>
            NamedIn(scrViolations, TypeAt(x), MethodAt(x)) =
                _validate_method(TypeAt(x), MethodAt(x), scrDisk[x.unit])

\* script validator: a listed method whose introspection raises is skipped
C20_ScriptSkipped ==
    \A x \in ScriptMethods :
        (ScriptListed(x) /\ IntrospectionRaises(x)) =>
            NamedIn(scrViolations, TypeAt(x), MethodAt(x)) = <<>>

\* C20: an introspection error raised while one member is classified or
\* matched is confined to that member: the member is skipped, yielding no
\* violation, and every sibling member of its type and every member of a later
\* type of the unit still yields its violations; in the package validator
\* and in the script validator.
C20_MemberErrorConfined ==
    /\ C20_PackageConfined
    /\ C20_ScriptSiblings
    /\ C20_ScriptSkipped

(* ====================================================================== *)
(* PROPERTIES OF THE DRIVER'S EXIT STATUS                                 *)
(* ====================================================================== *)
\* C21: in every run that has built its report and has exited, the exit
\* status is non-zero exactly when --fail-on-violations is given and the
\* report holds at least one violation (without the flag it is zero however
\* many violations there are), and the report was written to the output file
\* or printed before the exit.
C21_ExitStatus ==
    (ReportGenerated /\ exitCode >= 0) =>
        /\ cliPc = "exited"
        /\ (exitCode # 0) <=> (args.fail_on_violations /\ report.totalViolations > 0)
        /\ (~args.fail_on_violations => exitCode = 0)
        /\ emitted = report

\* a run without the flag that found violations, wrote them and exited with 0
C21_Witness ==
    /\ cliPc = "exited"
    /\ ReportGenerated
    /\ ~args.fail_on_violations
    /\ report.totalViolations > 0
    /\ emitted = report
    /\ exitCode = 0

(* ---------------------- further source-frontend rules ----------------- *)
\* the statements of a body at any depth, those of nested function and
\* class definitions left out
RECURSIVE OwnStatements(_)
OwnStatements(body) ==
    IF body = <<>> THEN {}
    ELSE {Head(body)}
         \cup (IF Head(body).kind \in {"FunctionDef", "AsyncFunctionDef", "ClassDef"}
               THEN {} ELSE OwnStatements(Head(body).body))
         \cup OwnStatements(Tail(body))

\* the statement raises the name NotImplementedError or a call to it
RaisesNotImplemented(s) ==
    /\ s.kind = "Raise"
    /\ Shape(s).value \in {NameExpr("NotImplementedError"), CallNameExpr("NotImplementedError")}

\* the not-implemented violations for function n of file i at line l
RaiseReported(i, n, l) ==
    {k \in ReportedAt(i, l, MsgRaises) :
        /\ pyViolations[k].member = n.name
        /\ pyViolations[k].violation_type = "IncompleteImplementation"}

\* C22 for the statements that are direct children of the function body
C22_DirectRaiseReported ==
    pyPc = "done" =>
        \A i \in ParsedFiles : \A n \in FunctionsOf(i) : \A j \in DOMAIN n.body :
            RaisesNotImplemented(n.body[j]) => RaiseReported(i, n, n.body[j].lineno) # {}

\* C22: when validate_python_path returns, for every function of a parsed
\* file and every raise statement in its body (at any depth of the function's
\* own statements) that raises the name NotImplementedError or a call to it,
\* there is an IncompleteImplementation violation naming the function at the
\* line of that raise statement.
C22_RaiseReported ==
    pyPc = "done" =>
        \A i \in ParsedFiles : \A n \in FunctionsOf(i) : \A s \in OwnStatements(n.body) :
            RaisesNotImplemented(s) => RaiseReported(i, n, s.lineno) # {}

\* the placeholder-class violations for class c of file i
PlaceholderReported(i, c) ==
    {k \in ReportedAt(i, c.lineno, MsgPlaceholderClass) : pyViolations[k].member = c.name}

\* every statement of the body is pass or an ellipsis
OnlyPassOrEllipsis(body) == \A j \in DOMAIN body : Shape(body[j]) \in {PassStmt, EllipsisStmt}

\* C23 with every string-literal expression statement of the body stripped,
\* not the docstring alone
C23_AllStringsStripped ==
    pyPc = "done" =>
        \A i \in ParsedFiles : \A c \in ClassesOf(i) :
            /\ Cardinality(PlaceholderReported(i, c)) =
                  (IF OnlyPassOrEllipsis(NonDoc(c.body)) THEN 1 ELSE 0)
            /\ \A k \in PlaceholderReported(i, c) : pyViolations[k].violation_type = "UnusedCode"

\* C23: when validate_python_path returns, every class of a parsed file
\* whose body, once its docstring (a leading string literal) is stripped,
\* holds no statement other than pass or an ellipsis has exactly one
\* placeholder-class violation, of kind UnusedCode; a class with any other
\* statement in its body has none.
C23_PlaceholderClass ==
    pyPc = "done" =>
        \A i \in ParsedFiles : \A c \in ClassesOf(i) :
            /\ Cardinality(PlaceholderReported(i, c)) =
                  (IF OnlyPassOrEllipsis(AfterDocstring(c.body)) THEN 1 ELSE 0)
            /\ \A k \in PlaceholderReported(i, c) : pyViolations[k].violation_type = "UnusedCode"

(* ------------------- further rules of the standalone script ------------ *)
\* the violations of kind DebuggingCode that the last call holds for method x
DebuggingReported(x) ==
    {k \in DOMAIN scrViolations :
        /\ scrViolations[k].file_path = scrDisk[x.unit].path
        /\ scrViolations[k].type_name = TypeAt(x).Name
        /\ scrViolations[k].member = MethodAt(x).Name
        /\ scrViolations[k].violation_type = "DebuggingCode"}

\* the name begins with the debug or the test prefix
DebugOrTestPrefix(name) ==
    \/ Len(name) >= 5 /\ SubSeq(name, 1, 5) = <<"D","e","b","u","g">>
    \/ Len(name) >= 4 /\ SubSeq(name, 1, 4) = <<"T","e","s","t">>

\* the member carries the deprecated marker
CarriesObsolete(member) ==
    \E a \in member.attrs : Contains(a, <<"O","b","s","o","l","e","t","e">>)

\* C24: a non-exempt method that the last call has analysed, and whose
\* attributes can be read, has a DebuggingCode violation exactly when its name
\* begins with Debug or Test and it carries no Obsolete marker, and then it
\* has exactly one, whatever its body.
C24_DebugOnly ==
    \A x \in ScriptMethods :
        (Analysed(x) /\ Namesakes(x) = {x} /\ ~MethodAt(x).attrsErr) =>
            Cardinality(DebuggingReported(x)) =
                (IF DebugOrTestPrefix(MethodAt(x).Name) /\ ~CarriesObsolete(MethodAt(x))
                 THEN 1 ELSE 0)

\* the violations the last call holds for type t of unit u that report the
\* abstract-member condition, at the type level or at a member
AbstractReported(u, t) ==
    {k \in DOMAIN scrViolations :
        /\ scrViolations[k].file_path = scrDisk[u].path
        /\ scrViolations[k].type_name = scrDisk[u].types[t].Name
        /\ scrViolations[k].violation.text \in
              {MsgAbstractMethods(<<>>).text, MsgUnsealedAbstract.text}}

\* the abstract instance methods that type_obj lists
AbstractMembers(type_obj) ==
    SelectSeq(type_obj.methods, LAMBDA m : m.IsAbstract /\ ~m.IsStatic)

\* C25: for every type the last call has analysed and whose methods can be
\* listed: a non-abstract, non-interface type with at least one abstract
\* member has exactly one violation for the abstract-member condition, at the
\* type level (its member is the type name) and listing the names of the
\* abstract members; abstract types, interfaces and types without abstract
\* members have none.
C25_AbstractMembersOnce ==
    LastUnit # 0 =>
        \A t \in ValidatedTypes(scrDisk[LastUnit]) :
            LET type_obj == scrDisk[LastUnit].types[t]
                names == [i \in DOMAIN AbstractMembers(type_obj) |-> AbstractMembers(type_obj)[i].Name]
            IN  (/\ ~type_obj.methodsErr
                 /\ \A s \in DOMAIN scrDisk[LastUnit].types :
                       scrDisk[LastUnit].types[s].Name = type_obj.Name => s = t) =>
                    IF ~type_obj.IsAbstract /\ ~type_obj.IsInterface /\ names # <<>>
                    THEN /\ Cardinality(AbstractReported(LastUnit, t)) = 1
                         /\ \A k \in AbstractReported(LastUnit, t) :
                               /\ scrViolations[k].member = type_obj.Name
                               /\ scrViolations[k].violation = MsgAbstractMethods(Join(names))
                    ELSE AbstractReported(LastUnit, t) = {}

\* C25 for the type-level violation alone
C25_TypeLevelOnce ==
    LastUnit # 0 =>
        \A t \in ValidatedTypes(scrDisk[LastUnit]) :
            LET type_obj == scrDisk[LastUnit].types[t]
                names == [i \in DOMAIN AbstractMembers(type_obj) |-> AbstractMembers(type_obj)[i].Name]
                atType == {k \in AbstractReported(LastUnit, t) :
                              scrViolations[k].violation.text = MsgAbstractMethods(<<>>).text}
            IN  (/\ ~type_obj.methodsErr
                 /\ \A s \in DOMAIN scrDisk[LastUnit].types :
                       scrDisk[LastUnit].types[s].Name = type_obj.Name => s = t) =>
                    IF ~type_obj.IsAbstract /\ ~type_obj.IsInterface /\ names # <<>>
                    THEN /\ Cardinality(atType) = 1
                         /\ \A k \in atType :
                               /\ scrViolations[k].member = type_obj.Name
                               /\ scrViolations[k].violation = MsgAbstractMethods(Join(names))
                    ELSE atType = {}

(* ------------------- one violation kind for every rule ----------------- *)
\* the kind the source frontend gives a hollow enum: `class K(Enum): RED = 1`
SourceHollowEnumKind ==
    HollowViolations(ClassDef("K", <<NameBase(N_Enum)>>, <<AssignStmt(<<NameTarget(N_RED)>>)>>),
                     SourceFile(<<>>, "ok", FALSE, <<>>))[1].violation_type

\* the kind the script gives a method whose body is a lone ret
ScriptEmptyBodyKind ==
    _check_cold_methods(EmptyMethod(M_Run, T_Widget), Type(T_Widget, <<>>),
                        Assembly(<<>>))[1].violation_type

\* the kind the package validator gives a method whose body is a lone ret
PackageEmptyBodyKind ==
    MethodViolations(EmptyRun(T_Widget), TypeInfo(T_Widget, T_Widget, FALSE, <<>>, FALSE),
                     Loadable(<<>>, "none"))[1].violation_type

\* C26: a rule has one violation kind wherever it is evaluated: every
\* hollow-enum violation of the script has the kind the source frontend gives
\* a hollow enum, every empty-body violation of the script has the kind the
\* package validator gives an empty body, and the other way round.
C26_OneKindPerRule ==
    /\ \A k \in DOMAIN scrViolations :
          scrViolations[k].violation.text \in {MsgHollowEnumValues.text, MsgHollowEnumNames(<<>>).text}
              => scrViolations[k].violation_type = SourceHollowEnumKind
    /\ \A k \in DOMAIN scrViolations :
          scrViolations[k].violation = MsgColdMethod
              => scrViolations[k].violation_type = PackageEmptyBodyKind
    /\ \A k \in DOMAIN violations :
          violations[k].violation = MsgEmpty
              => violations[k].violation_type = ScriptEmptyBodyKind

\* the hollow-enum half of C26
C26_HollowEnumKind ==
    \A k \in DOMAIN scrViolations :
        scrViolations[k].violation.text \in {MsgHollowEnumValues.text, MsgHollowEnumNames(<<>>).text}
            => scrViolations[k].violation_type = SourceHollowEnumKind

\* the empty-body half of C26
C26_EmptyBodyKind ==
    /\ \A k \in DOMAIN scrViolations :
          scrViolations[k].violation = MsgColdMethod
              => scrViolations[k].violation_type = PackageEmptyBodyKind
    /\ \A k \in DOMAIN violations :
          violations[k].violation = MsgEmpty
              => violations[k].violation_type = ScriptEmptyBodyKind

\* a body that loads a constant, null or a default value and returns it
ConstantNullOrDefaultReturn(il) ==
    il \in {<<OP_LDNULL, OP_RET>>, <<OP_LDC_I4_M1, OP_RET>>, <<OP_LDC_I4_0, OP_RET>>,
            <<OP_LDC_I4_1, OP_RET>>}

\* C27: every non-exempt method that the last call has analysed, whose body
\* can be read, is at most 5 bytes long and loads a constant, null or a
\* default value and returns it, has a "suspiciously simple" violation; a
\* method whose body is longer than 5 bytes has none.
C27_SuspiciouslySimple ==
    \A x \in ScriptMethods :
        (Analysed(x) /\ MethodAt(x).body = "il") =>
            /\ (Len(MethodAt(x).il) <= 5 /\ ConstantNullOrDefaultReturn(MethodAt(x).il)
                /\ NonVoid(MethodAt(x)))
                  => Reported(x, MsgSuspiciouslySimple) # {}
            /\ (Len(MethodAt(x).il) > 5 /\ Namesakes(x) = {x})
                  => Reported(x, MsgSuspiciouslySimple) = {}

\* there is an offset i, counted from 0, with the construct-object opcode at
\* byte i and the throw opcode at byte i+5, both inside the stream
ThrowSignatureAt(il) ==
    \E i \in 0..(Len(il) - 6) : il[i + 1] = 115 /\ il[i + 6] = 122

\* C28: for every method body on disk, contains_throw_not_implemented is
\* true exactly when some offset i from 0 to len-6 has 0x73 at byte i and 0x7A
\* at byte i+5; an empty body and a body shorter than 6 bytes never match; and
\* a method the last call has analysed is reported for the signature exactly
\* when its body matches.
C28_ThrowSignature ==
    \A x \in ScriptMethods :
        MethodAt(x).body = "il" =>
            LET il == MethodAt(x).il
            IN  /\ contains_throw_not_implemented(il) <=> ThrowSignatureAt(il)
                /\ Len(il) < 6 => ~contains_throw_not_implemented(il)
                /\ (Analysed(x) /\ Namesakes(x) = {x}) =>
                      (Reported(x, MsgThrowNotImplemented) # {} <=> ThrowSignatureAt(il))

\* an analysed method whose only match is at the last offset that fits,
\* len-6, which is not offset 0, and which is reported
C28_Witness ==
    \E x \in ScriptMethods :
        /\ Analysed(x)
        /\ MethodAt(x).body = "il"
        /\ MethodAt(x).il = <<0, 0>> \o ThrowNotImplemented
        /\ Reported(x, MsgThrowNotImplemented) # {}

\* the violations with message m that the call holds for function n of file i
FunctionReported(i, n, m) ==
    {k \in ReportedFor(i, n) : pyViolations[k].violation = m}

\* the raise statements among the direct children of the body of n that
\* raise NotImplementedError
DirectRaises(n) == {j \in DOMAIN n.body : RaisesNotImplemented(n.body[j])}

\* n is the only function of file i with its name
OnlyOfItsName(i, n) == \A m \in FunctionsOf(i) : m.name = n.name => m = n

\* C29: when validate_python_path returns, for every function of a parsed
\* file: it has not both a stub and a constant-return violation; if it has a
\* not-implemented-raise violation it has neither of the other two; and it
\* has more than one violation only when its body holds several raise
\* statements of NotImplementedError.
C29_FunctionRulesExclusive ==
    pyPc = "done" =>
        \A i \in ParsedFiles : \A n \in FunctionsOf(i) :
            OnlyOfItsName(i, n) =>
                /\ ~(FunctionReported(i, n, MsgStub) # {} /\ FunctionReported(i, n, MsgConst) # {})
                /\ FunctionReported(i, n, MsgRaises) # {} =>
                      /\ FunctionReported(i, n, MsgStub) = {}
                      /\ FunctionReported(i, n, MsgConst) = {}
                /\ Cardinality(ReportedFor(i, n)) > 1 =>
                      /\ Cardinality(DirectRaises(n)) > 1
                      /\ ReportedFor(i, n) = FunctionReported(i, n, MsgRaises)

\* a returned call that analysed a function with two raise statements of
\* NotImplementedError and reported both, and nothing else, for it
C29_Witness ==
    /\ pyPc = "done"
    /\ \E i \in ParsedFiles : \E n \in FunctionsOf(i) :
          /\ OnlyOfItsName(i, n)
          /\ Cardinality(DirectRaises(n)) = 2
          /\ Cardinality(ReportedFor(i, n)) = 2
          /\ ReportedFor(i, n) = FunctionReported(i, n, MsgRaises)

(* ---------------------------------------------------------------------- *)
(* the files a directory call analyses                                    *)
(* ---------------------------------------------------------------------- *)
\* the entry is a .py file that some include pattern matches
Candidate(e) ==
    /\ e.is_file
    /\ Suffix(e.rel[Len(e.rel)]) = <<".","p","y">>
    /\ \E k \in DOMAIN itInc : GlobMatches(e.rel, itInc[k])

\* a directory component of the path relative to the root is excluded
DirBelowRootExcluded(e) == \E k \in 1..(Len(e.rel) - 1) : e.rel[k] \in itExc

\* a part of the resolved root is excluded
RootPartExcluded == AnyPartExcluded(itRoot, itExc)

\* no path is yielded twice, however many patterns match it
C30_AtMostOnce ==
    \A p \in {itYielded[i] : i \in DOMAIN itYielded} : Occurrences(itYielded, p) = 1

\* under a root none of whose parts is excluded, a candidate whose own name
\* is not excluded is analysed once or not at all by its directories alone
C30_CleanRoot ==
    (itPc = "done" /\ ~RootPartExcluded) =>
        \A i \in DOMAIN fsTree :
            (Candidate(fsTree[i]) /\ fsTree[i].rel[Len(fsTree[i].rel)] \notin itExc) =>
                Occurrences(itYielded, itRoot \o fsTree[i].rel)
                    = IF DirBelowRootExcluded(fsTree[i]) THEN 0 ELSE 1

\* C30: when the call on a directory has gone through its files, every .py
\* file below the root that an include pattern matches was analysed exactly
\* once if no directory component of its path relative to the root is in the
\* exclude set, and not at all otherwise, whatever the root's ancestors are.
C30_RelativePathDecides ==
    itPc = "done" =>
        \A i \in DOMAIN fsTree :
            Candidate(fsTree[i]) =>
                Occurrences(itYielded, itRoot \o fsTree[i].rel)
                    = IF DirBelowRootExcluded(fsTree[i]) THEN 0 ELSE 1

====
